---------------------------- MODULE Spec2Model ----------------------------
(***************************************************************************)
(* Model of PDFParser.parse_tables                                         *)
(* (src/docling_project/src/parser/pdf_parser.py): the per-table row       *)
(* reconciliation of the dataframe path, the fallback raw-matrix path, and *)
(* the string helpers they use.  Cells are TLA+ strings; Python's None is  *)
(* the empty tuple and a present value v is <<v>>.                         *)
(***************************************************************************)
EXTENDS Integers, Sequences, FiniteSets, TLC

(***************************************************************************)
(* Bounds of the model.                                                    *)
(***************************************************************************)
\* largest number of tables in a document
MaxTables == 2
\* largest number of data rows in a document, all tables together
MaxRows == 2

\* largest number of calls made on one DatabaseOperations object
MaxCalls == 3

\* largest number of files in the input directory
MaxFiles == 2

\* largest number of runs of main.py
MaxRuns == 2

\* largest number of calls made on the search service
MaxRequests == 3

\* largest page number and page size of a search request
MaxPage == 2

MaxSize == 3

\* largest number of hits the store reports for a search
MaxTotal == 4

\* largest number of runs of the DAG clv_drift_monitoring
MaxDagRuns == 3

(***************************************************************************)
(* Optional values and characters.                                         *)
(***************************************************************************)
None == <<>>

Some(v) == <<v>>

\* Python truthiness of an optional string: None and "" are falsy
Truthy(o) == o # None /\ o[1] # ""

\* the i-th character of s, "" outside the string
Ch(s, i) == IF i >= 1 /\ i <= Len(s) THEN SubSeq(s, i, i) ELSE ""

Digits == {"0", "1", "2", "3", "4", "5", "6", "7", "8", "9"}

LowerLetters == "abcdefghijklmnopqrstuvwxyz"

UpperLetters == "ABCDEFGHIJKLMNOPQRSTUVWXYZ"

LetterSet == {Ch(LowerLetters, i) : i \in 1..26} \cup {Ch(UpperLetters, i) : i \in 1..26}

IsSpace(c) == c = " "

DigitChar(n) == Ch("0123456789", n + 1)

DigitValOf == [c \in Digits |-> CHOOSE n \in 0..9 : DigitChar(n) = c]

DigitVal(c) == DigitValOf[c]

\* all characters of s[p .. p+n-1] exist and are digits
DigitsAt(s, p, n) ==
    /\ p >= 1
    /\ p + n - 1 <= Len(s)
    /\ \A i \in p..(p + n - 1) : Ch(s, i) \in Digits

RECURSIVE NumVal(_)
\* value of a non-empty string of digits
NumVal(s) ==
    IF Len(s) = 0 THEN 0
    ELSE NumVal(SubSeq(s, 1, Len(s) - 1)) * 10 + DigitVal(Ch(s, Len(s)))

RECURSIVE NatStr(_)
\* decimal digits of a natural number
NatStr(n) == IF n < 10 THEN DigitChar(n) ELSE NatStr(n \div 10) \o DigitChar(n % 10)

RECURSIVE ZeroPad(_, _)
ZeroPad(s, w) == IF Len(s) >= w THEN s ELSE ZeroPad("0" \o s, w)

\* Python's format spec {n:0wd}
FmtInt(n, w) ==
    IF n < 0 THEN "-" \o ZeroPad(NatStr(0 - n), w - 1) ELSE ZeroPad(NatStr(n), w)

RECURSIVE LStrip(_)
LStrip(s) == IF Len(s) > 0 /\ IsSpace(Ch(s, 1)) THEN LStrip(Tail(s)) ELSE s

RECURSIVE RStrip(_)
RStrip(s) ==
    IF Len(s) > 0 /\ IsSpace(Ch(s, Len(s))) THEN RStrip(SubSeq(s, 1, Len(s) - 1)) ELSE s

\* str.strip()
Strip(s) == RStrip(LStrip(s))

\* Python slice s[a:b] with 0-based bounds, clipped to the string
Slice(s, a, b) ==
    LET hi == IF b > Len(s) THEN Len(s) ELSE b
    IN  IF a >= hi THEN "" ELSE SubSeq(s, a + 1, hi)

\* substring test: sub in s
Contains(s, sub) ==
    \E i \in 1..(Len(s) - Len(sub) + 1) : SubSeq(s, i, i + Len(sub) - 1) = sub

StartsWith(s, pre) == Len(s) >= Len(pre) /\ SubSeq(s, 1, Len(pre)) = pre

\* the lower-case letter of each upper-case letter
LowerOf ==
    [c \in {Ch(UpperLetters, i) : i \in 1..26} |->
        Ch(LowerLetters, CHOOSE i \in 1..26 : Ch(UpperLetters, i) = c)]

LowerChar(c) == IF c \in DOMAIN LowerOf THEN LowerOf[c] ELSE c

RECURSIVE Lower(_)
\* str.lower()
Lower(s) == IF Len(s) = 0 THEN "" ELSE LowerChar(Ch(s, 1)) \o Lower(Tail(s))

\* str.split()[0] of a string that has a non-blank character
FirstWord(s) ==
    LET t == LStrip(s)
        ends == {i \in 1..Len(t) : IsSpace(Ch(t, i))}
    IN  IF ends = {} THEN t
        ELSE SubSeq(t, 1, (CHOOSE i \in ends : \A j \in ends : i <= j) - 1)

\* int(s): optional blanks, optional sign, decimal digits; None when int() raises
\* (digit-group underscores, which int() also accepts, are outside the alphabet)
IntOf(s) ==
    LET t == Strip(s)
        signed == Len(t) > 0 /\ Ch(t, 1) \in {"+", "-"}
        body == IF signed THEN Tail(t) ELSE t
    IN  IF Len(body) > 0 /\ DigitsAt(body, 1, Len(body))
        THEN Some(IF signed /\ Ch(t, 1) = "-" THEN 0 - NumVal(body) ELSE NumVal(body))
        ELSE None

(***************************************************************************)
(* datetime.strptime.  A format is a sequence of tokens: a directive       *)
(* ("%Y", "%m", ...), a blank (any run of white space) or a literal.       *)
(***************************************************************************)
MonthNames ==
    << "january", "february", "march", "april", "may", "june", "july",
       "august", "september", "october", "november", "december" >>

NoFields == [Y |-> 1900, m |-> 1, d |-> 1, H |-> 0, M |-> 0, S |-> 0, I |-> 0, p |-> ""]

\* the numbers a numeric directive accepts when written with n digits
DirectiveRange(tok, n) ==
    CASE tok = "%Y" -> IF n = 4 THEN 0..9999 ELSE {}
      [] tok = "%m" -> IF n = 2 THEN 1..12 ELSE 1..9
      [] tok = "%I" -> IF n = 2 THEN 1..12 ELSE 1..9
      [] tok = "%d" -> IF n = 2 THEN 1..31 ELSE 1..9
      [] tok = "%H" -> IF n = 2 THEN 0..23 ELSE 0..9
      [] tok = "%M" -> IF n = 2 THEN 0..59 ELSE 0..9
      [] tok = "%S" -> IF n = 2 THEN 0..61 ELSE 0..9

DirectiveWidths(tok) == IF tok = "%Y" THEN {4} ELSE {1, 2}

NumericDirectives == {"%Y", "%m", "%I", "%d", "%H", "%M", "%S"}

SetField(f, tok, v) ==
    CASE tok = "%Y" -> [f EXCEPT !.Y = v]
      [] tok = "%m" -> [f EXCEPT !.m = v]
      [] tok = "%I" -> [f EXCEPT !.I = v]
      [] tok = "%d" -> [f EXCEPT !.d = v]
      [] tok = "%H" -> [f EXCEPT !.H = v]
      [] tok = "%M" -> [f EXCEPT !.M = v]
      [] tok = "%S" -> [f EXCEPT !.S = v]

RECURSIVE StrpMatch(_, _, _, _, _)
\* the field assignments under which tokens k.. of fmt match s[p..] to its end
StrpMatch(fmt, k, s, p, f) ==
    IF k > Len(fmt) THEN (IF p = Len(s) + 1 THEN {f} ELSE {})
    ELSE LET tok == fmt[k] IN
        IF tok \in NumericDirectives THEN
            UNION { IF DigitsAt(s, p, n) /\ NumVal(SubSeq(s, p, p + n - 1)) \in DirectiveRange(tok, n)
                    THEN StrpMatch(fmt, k + 1, s, p + n, SetField(f, tok, NumVal(SubSeq(s, p, p + n - 1))))
                    ELSE {}
                  : n \in DirectiveWidths(tok) }
            \cup
            \* %d also accepts a blank followed by one digit
            (IF tok = "%d" /\ p + 1 <= Len(s) /\ IsSpace(Ch(s, p)) /\ Ch(s, p + 1) \in (Digits \ {"0"})
             THEN StrpMatch(fmt, k + 1, s, p + 2, SetField(f, tok, DigitVal(Ch(s, p + 1))))
             ELSE {})
        ELSE IF tok = "%B" THEN
            UNION { IF Ch(s, p) \in LetterSet /\ p + Len(MonthNames[i]) - 1 <= Len(s)
                       /\ Lower(SubSeq(s, p, p + Len(MonthNames[i]) - 1)) = MonthNames[i]
                    THEN StrpMatch(fmt, k + 1, s, p + Len(MonthNames[i]), [f EXCEPT !.m = i])
                    ELSE {}
                  : i \in 1..12 }
        ELSE IF tok = "%p" THEN
            IF p + 1 <= Len(s) /\ Lower(SubSeq(s, p, p + 1)) \in {"am", "pm"}
            THEN StrpMatch(fmt, k + 1, s, p + 2, [f EXCEPT !.p = Lower(SubSeq(s, p, p + 1))])
            ELSE {}
        ELSE IF tok = " " THEN
            UNION { IF \A j \in p..(q - 1) : IsSpace(Ch(s, j))
                    THEN StrpMatch(fmt, k + 1, s, q, f)
                    ELSE {}
                  : q \in (p + 1)..(Len(s) + 1) }
        ELSE
            IF p <= Len(s) /\ Ch(s, p) = tok THEN StrpMatch(fmt, k + 1, s, p + 1, f) ELSE {}

IsLeap(y) == (y % 4 = 0 /\ y % 100 # 0) \/ y % 400 = 0

DaysInMonth(y, m) ==
    IF m = 2 THEN (IF IsLeap(y) THEN 29 ELSE 28)
    ELSE IF m \in {4, 6, 9, 11} THEN 30 ELSE 31

\* 24-hour clock hour of a parse: %I with %p, else %H
Hour24(f) ==
    IF f.p = "" THEN f.H
    ELSE IF f.p = "pm" THEN (IF f.I = 12 THEN 12 ELSE f.I + 12)
    ELSE (IF f.I = 12 THEN 0 ELSE f.I)

\* an element of S as an optional value, None when S is empty
OptionOf(S) == IF S = {} THEN None ELSE Some(CHOOSE x \in S : TRUE)

\* the first optional value when it is present, else the second
OrElse(a, b) == IF a # None THEN a ELSE b

\* datetime.strptime(s, fmt): the parsed fields, or None when it raises ValueError
Strptime(s, fmt) ==
    OptionOf({f \in StrpMatch(fmt, 1, s, 1, NoFields) :
                f.Y >= 1 /\ f.d <= DaysInMonth(f.Y, f.m) /\ f.S <= 59})

(***************************************************************************)
(* The date helpers of parse_tables.                                       *)
(***************************************************************************)
DateFormats ==
    << <<"%Y", "-", "%m", "-", "%d", " ", "%H", ":", "%M", ":", "%S">>,
       <<"%Y", "-", "%m", "-", "%d", " ", "%H", ":", "%M">>,
       <<"%Y", "-", "%m", "-", "%d">>,
       <<"%m", "-", "%d", "-", "%Y", " ", "%H", ":", "%M", ":", "%S">>,
       <<"%m", "-", "%d", "-", "%Y", " ", "%H", ":", "%M">>,
       <<"%m", "-", "%d", "-", "%Y">>,
       <<"%m", "/", "%d", "/", "%Y">>,
       <<"%d", "/", "%m", "/", "%Y">>,
       <<"%d", "-", "%m", "-", "%Y">>,
       <<"%d", " ", "%B", " ", "%Y">>,
       <<"%B", " ", "%d", ",", " ", "%Y">> >>

TimeFormats ==
    << <<"%H", ":", "%M", ":", "%S">>,
       <<"%H", ":", "%M">>,
       <<"%I", ":", "%M", " ", "%p">>,
       <<"%I", ":", "%M", ":", "%S", " ", "%p">> >>

\* dt.strftime("%m-%d-%Y {hour:02d}:{minute:02d}"); %Y is not zero-padded by glibc
FormatDateTime(f) ==
    FmtInt(f.m, 2) \o "-" \o FmtInt(f.d, 2) \o "-" \o NatStr(f.Y)
        \o " " \o FmtInt(Hour24(f), 2) \o ":" \o FmtInt(f.M, 2)

\* the f-string of the "D:" branch; None when one of the int() calls raised
FormatDPrefix(y, m, d, hh, mm) ==
    IF None \in {y, m, d, hh, mm} THEN None
    ELSE Some(FmtInt(m[1], 2) \o "-" \o FmtInt(d[1], 2) \o "-" \o FmtInt(y[1], 4)
                \o " " \o FmtInt(hh[1], 2) \o ":" \o FmtInt(mm[1], 2))

\* the "D:YYYYMMDD[HHmm]" branch of _parse_pdf_date
ParseDPrefix(s) ==
    FormatDPrefix(IntOf(Slice(s, 2, 6)), IntOf(Slice(s, 6, 8)), IntOf(Slice(s, 8, 10)),
                  IF Len(s) >= 12 THEN IntOf(Slice(s, 10, 12)) ELSE Some(0),
                  IF Len(s) >= 14 THEN IntOf(Slice(s, 12, 14)) ELSE Some(0))

\* a parse of strptime formatted as MM-DD-YYYY HH:MM
FormatParsed(dt) == IF dt = None THEN None ELSE Some(FormatDateTime(dt[1]))

RECURSIVE FirstDateFormat(_, _)
\* the first format of DateFormats, from the i-th on, that parses s
FirstDateFormat(s, i) ==
    IF i > Len(DateFormats) THEN None
    ELSE OrElse(FormatParsed(Strptime(s, DateFormats[i])), FirstDateFormat(s, i + 1))

\* _parse_pdf_date on the stripped string: the "D:" branch, then the formats
ParseStripped(s) ==
    OrElse(IF StartsWith(s, "D:") THEN ParseDPrefix(s) ELSE None, FirstDateFormat(s, 1))

\* _parse_pdf_date(s), s an optional string
_parse_pdf_date(o) == IF ~Truthy(o) THEN None ELSE ParseStripped(Strip(o[1]))

\* re.match(r"^\s*\d{1,2}:\d{2}(:\d{2})?(\s?[APMapm]{2})?\s*$", s)
TimeOnlyRe(s) ==
    LET t == Strip(s)
        AmPm(r) ==
            \/ r = ""
            \/ Len(r) = 2 /\ \A i \in 1..2 : Ch(r, i) \in {"A", "P", "M", "a", "p", "m"}
            \/ Len(r) = 3 /\ IsSpace(Ch(r, 1)) /\ \A i \in 2..3 : Ch(r, i) \in {"A", "P", "M", "a", "p", "m"}
        Secs(r) ==
            \/ AmPm(r)
            \/ Len(r) >= 3 /\ Ch(r, 1) = ":" /\ DigitsAt(r, 2, 2) /\ AmPm(SubSeq(r, 4, Len(r)))
    IN  \E h \in {1, 2} :
            /\ DigitsAt(t, 1, h)
            /\ h + 3 <= Len(t)
            /\ Ch(t, h + 1) = ":"
            /\ DigitsAt(t, h + 2, 2)
            /\ Secs(SubSeq(t, h + 4, Len(t)))

_is_time_only(o) == IF ~Truthy(o) THEN FALSE ELSE TimeOnlyRe(o[1])

\* re.search(r"(\d{1,2}:\d{2})", s): the leftmost match, longest hour first
TimeSearch(s) ==
    LET hit(i, h) == DigitsAt(s, i, h) /\ i + h <= Len(s) /\ Ch(s, i + h) = ":" /\ DigitsAt(s, i + h + 1, 2)
        starts == {i \in 1..Len(s) : hit(i, 1) \/ hit(i, 2)}
    IN  IF starts = {} THEN None
        ELSE LET i == CHOOSE x \in starts : \A y \in starts : x <= y
                 h == IF hit(i, 2) THEN 2 ELSE 1
             IN  Some(SubSeq(s, i, i + h + 2))

\* \d{4}-\d{2}-\d{2} at position i
IsoDateAt(s, i) ==
    /\ DigitsAt(s, i, 4) /\ i + 9 <= Len(s)
    /\ Ch(s, i + 4) = "-" /\ DigitsAt(s, i + 5, 2)
    /\ Ch(s, i + 7) = "-" /\ DigitsAt(s, i + 8, 2)

\* the lengths n for which \d{1,2}[-/]\d{1,2}[-/]\d{2,4} matches s[i .. i+n-1]
SepDateLens(s, i) ==
    IF Ch(s, i) \notin Digits THEN {}
    ELSE UNION { IF DigitsAt(s, i, a) /\ Ch(s, i + a) \in {"-", "/"}
                 THEN UNION { IF DigitsAt(s, i + a + 1, b) /\ Ch(s, i + a + b + 1) \in {"-", "/"}
                              THEN {a + b + y + 2 : y \in {y \in {2, 3, 4} : DigitsAt(s, i + a + b + 2, y)}}
                              ELSE {}
                              : b \in {1, 2} }
                 ELSE {}
                 : a \in {1, 2} }

\* [A-Za-z]{3,9} \d{1,2}, \d{4} starting with the three letters at position i
LongDateAt(s, i) ==
    /\ i + 2 <= Len(s)
    /\ \A j \in i..(i + 2) : Ch(s, j) \in LetterSet
    /\ \E d \in {1, 2} :
        /\ i + 3 + d + 5 <= Len(s)
        /\ Ch(s, i + 3) = " "
        /\ DigitsAt(s, i + 4, d)
        /\ Ch(s, i + 4 + d) = ","
        /\ Ch(s, i + 5 + d) = " "
        /\ DigitsAt(s, i + 6 + d, 4)

\* _is_date_like_without_time(s)
_is_date_like_without_time(o) ==
    IF ~Truthy(o) THEN FALSE
    ELSE IF Contains(o[1], ":") THEN FALSE
    ELSE \E i \in 1..Len(o[1]) :
            IsoDateAt(o[1], i) \/ SepDateLens(o[1], i) # {} \/ LongDateAt(o[1], i)

\* variant of _strip_trailing_date: the pattern lacks the \d{4}-\d{2}-\d{2} alternative
StripTrailingSepDate(s) ==
    LET cuts == {i \in 1..Len(s) :
                    /\ IsSpace(Ch(s, i))
                    /\ \E j \in (i + 1)..Len(s) :
                          /\ \A k \in i..(j - 1) : IsSpace(Ch(s, k))
                          /\ (Len(s) - j + 1) \in SepDateLens(s, j)}
    IN  IF cuts = {} THEN s
        ELSE SubSeq(s, 1, (CHOOSE i \in cuts : \A j \in cuts : i <= j) - 1)

\* _strip_trailing_date(s): re.sub(r"\s+(\d{1,2}[-/]\d{1,2}[-/]\d{2,4}|\d{4}-\d{2}-\d{2})$", "", s)
_strip_trailing_date(s) ==
    LET tailDate(i) ==
            \* s[i..] is a run of blanks followed by a date that ends the string
            /\ IsSpace(Ch(s, i))
            /\ \E j \in (i + 1)..Len(s) :
                /\ \A k \in i..(j - 1) : IsSpace(Ch(s, k))
                /\ \/ (Len(s) - j + 1) \in SepDateLens(s, j)
                   \/ (IsoDateAt(s, j) /\ j + 9 = Len(s))
        cuts == {i \in 1..Len(s) : tailDate(i)}
    IN  IF cuts = {} THEN s
        ELSE SubSeq(s, 1, (CHOOSE i \in cuts : \A j \in cuts : i <= j) - 1)

\* re.search(r"(20\d{2}|19\d{2})", s): the leftmost four-digit year
YearSearch(s) ==
    LET hit(i) == i + 3 <= Len(s) /\ SubSeq(s, i, i + 1) \in {"20", "19"} /\ DigitsAt(s, i + 2, 2)
        starts == {i \in 1..Len(s) : hit(i)}
    IN  IF starts = {} THEN None
        ELSE LET i == CHOOSE x \in starts : \A y \in starts : x <= y IN Some(SubSeq(s, i, i + 3))

\* t.strftime("%H:%M") of a parse of strptime
FormatTime(t) == IF t = None THEN None ELSE Some(FmtInt(Hour24(t[1]), 2) \o ":" \o FmtInt(t[1].M, 2))

RECURSIVE FirstTimeFormat(_, _)
\* the first format of TimeFormats, from the i-th on, that parses s, as "%H:%M"
FirstTimeFormat(s, i) ==
    IF i > Len(TimeFormats) THEN None
    ELSE OrElse(FormatTime(Strptime(s, TimeFormats[i])), FirstTimeFormat(s, i + 1))

\* date_part of a time-only field: the date of the parsed document date, else
\* January 1st of the year m2 found in it, else None
DatePart(doc_date_str, parsed_doc, m2) ==
    IF ~Truthy(doc_date_str) THEN None
    ELSE IF parsed_doc # None THEN Some(FirstWord(parsed_doc[1]))
    ELSE IF m2 # None THEN Some("01-01-" \o m2[1])
    ELSE None

\* the result for a time-only field: date and time, or the time alone
CombineTime(date_part, time_part) ==
    IF time_part = None THEN None
    ELSE IF Truthy(date_part) THEN Some(date_part[1] \o " " \o time_part[1])
    ELSE time_part

\* _normalize_and_combine_date_field on the stripped, non-empty field
NormalizeStripped(s, doc_date_str) ==
    IF TimeOnlyRe(s)
    THEN CombineTime(DatePart(doc_date_str, _parse_pdf_date(doc_date_str),
                              IF Truthy(doc_date_str) THEN YearSearch(doc_date_str[1]) ELSE None),
                     FirstTimeFormat(s, 1))
    ELSE _parse_pdf_date(Some(s))

\* _normalize_and_combine_date_field(s, doc_date_str), both optional strings
_normalize_and_combine_date_field(o, doc_date_str) ==
    IF ~Truthy(o) THEN None ELSE NormalizeStripped(Strip(o[1]), doc_date_str)

\* _to_int_safe(value), value a string
_to_int_safe(value) == IF Strip(value) = "" THEN None ELSE IntOf(Strip(value))

\* _is_valid_document_name(s)
_is_valid_document_name(s) ==
    IF s = "" THEN FALSE
    ELSE LET t == Strip(s) IN
        IF Len(t) > 0 /\ DigitsAt(t, 1, Len(t)) THEN FALSE
        ELSE Contains(t, ".") \/ \E i \in 1..Len(t) : Ch(t, i) \in LetterSet

(***************************************************************************)
(* Row shaping and header handling of the dataframe path.                  *)
(***************************************************************************)
\* str(cell).strip() if cell is not None and str(cell).strip() != 'nan' else ""
CleanCell(cell) == IF Strip(cell) = "nan" THEN "" ELSE Strip(cell)

CleanRow(row) == [i \in 1..Len(row) |-> CleanCell(row[i])]

HeaderKeywords ==
    {"id", "document", "table", "row", "column", "cell", "content", "date", "name",
     "number", "extracted"}

\* variant of _looks_like_header_row: a cell that is a keyword, not one that
\* contains a keyword
LooksLikeHeaderExact(row) ==
    \E idx \in 1..(IF Len(row) < 2 THEN Len(row) ELSE 2) :
        Lower(Strip(row[idx])) \in HeaderKeywords

\* _looks_like_header_row(row)
_looks_like_header_row(row) ==
    \E idx \in 1..(IF Len(row) < 2 THEN Len(row) ELSE 2) :
        \E kw \in HeaderKeywords : Contains(Lower(Strip(row[idx])), kw)

\* is_exact or is_prefix or is_header_like, for the first body row
IsDuplicateHeader(header_row, first) ==
    LET min_len == IF Len(first) < Len(header_row) THEN Len(first) ELSE Len(header_row)
        is_exact == first = header_row
        is_prefix == min_len >= 2 /\ \A i \in 1..min_len : first[i] = header_row[i]
    IN  is_exact \/ is_prefix \/ _looks_like_header_row(first)

\* df_rows as built from the dataframe of table t
DfRows(t) ==
    IF t.export = "range" THEN [i \in 1..Len(t.data) |-> CleanRow(t.data[i])]
    ELSE LET header_row == CleanRow(t.columns)
             body_rows == [i \in 1..Len(t.data) |-> CleanRow(t.data[i])]
         IN  IF body_rows # <<>> /\ IsDuplicateHeader(header_row, body_rows[1])
             THEN <<header_row>> \o Tail(body_rows)
             ELSE <<header_row>> \o body_rows

\* a row with >= 8 cells whose 7th is a bare date and whose 8th is time-only
\* gets the time appended to the 7th cell and the 8th cell deleted
MergeDateTime(row) ==
    IF Len(row) >= 8 /\ _is_date_like_without_time(Some(row[7])) /\ _is_time_only(Some(row[8]))
    THEN LET tm == TimeSearch(row[8])
             seventh == row[7] \o " " \o (IF tm # None THEN tm[1] ELSE row[8])
         IN  SubSeq(row, 1, 6) \o <<seventh>> \o SubSeq(row, 9, Len(row))
    ELSE row

\* while len(row_values) < 7: row_values.append("")
PadRow(row) == row \o [i \in 1..(IF Len(row) < 7 THEN 7 - Len(row) ELSE 0) |-> ""]

\* row_values[:7]
ShapeRow(row) == SubSeq(PadRow(MergeDateTime(row)), 1, 7)

\* forward-fill of the empty cells from last_seen
ForwardFill(row, seen) ==
    [i \in 1..7 |-> IF row[i] = "" /\ seen[i] # None THEN seen[i][1] ELSE row[i]]

\* variant of ResolveName: the row's own 2nd cell, valid or not
ResolveNameRaw(row, seen) == row[2]

\* the document name of a row: its (forward-filled) 2nd cell, or the last
\* valid name seen when that cell is not a valid name
ResolveName(row, seen) ==
    IF ~_is_valid_document_name(row[2]) /\ Truthy(seen[2]) /\ _is_valid_document_name(seen[2][1])
    THEN seen[2][1]
    ELSE row[2]

\* last_seen after a row: every non-empty cell, the 2nd only when name-valid
UpdateLastSeen(seen, row) ==
    [i \in 1..7 |->
        IF row[i] # "" /\ (i # 2 \/ _is_valid_document_name(row[i])) THEN Some(row[i]) ELSE seen[i]]

\* raw_seventh: the 7th cell after forward-fill, None when empty
RawSeventh(raw) == IF raw # "" THEN Some(raw) ELSE None

\* next_raw: the 7th cell of the next row, None when that row has fewer cells
NextRaw(next) == IF next # None /\ Len(next[1]) >= 7 THEN Some(next[1][7]) ELSE None

\* f"{date_part} {tmatch.group(1)}" when the date parses and a time is found
CombineDateTime(parsed_date, tmatch) ==
    IF parsed_date # None /\ tmatch # None
    THEN Some(FirstWord(parsed_date[1]) \o " " \o tmatch[1]) ELSE None

\* the time-only branch is taken: the cell is time-only and the previous row has a date
ViaPrev(raw_seventh, prev) == _is_time_only(raw_seventh) /\ Truthy(prev)

\* combined_value: a time-only cell takes the date of the previous row's
\* emitted date; else a bare date takes the time of a time-only next row
CombinedValue(raw_seventh, prev, next) ==
    IF ViaPrev(raw_seventh, prev)
    THEN CombineDateTime(_parse_pdf_date(prev), TimeSearch(raw_seventh[1]))
    ELSE IF /\ _is_date_like_without_time(raw_seventh)
            /\ next # None
            /\ _is_time_only(NextRaw(next))
         THEN CombineDateTime(_parse_pdf_date(raw_seventh), TimeSearch(NextRaw(next)[1]))
         ELSE None

\* seventh_col_value, and the value the look-ahead branch wrote to the next row
Resolved(raw_seventh, look_ahead, combined_value, doc_date) ==
    [ date |-> IF Truthy(combined_value) THEN combined_value
               ELSE _normalize_and_combine_date_field(raw_seventh, doc_date),
      writeback |-> IF look_ahead THEN combined_value ELSE None ]

\* date reconciliation of a row: raw is its 7th cell after forward-fill, prev
\* the previous row's emitted date, next the next row (None for the last row).
\* Yields the emitted date and the value written back to the next row.
ResolveDate(raw, prev, next, doc_date) ==
    Resolved(RawSeventh(raw), ~ViaPrev(RawSeventh(raw), prev),
             CombinedValue(RawSeventh(raw), prev, next), doc_date)

TableData(name, t, r, c, content, date) ==
    [ document_name |-> name, table_number |-> t, row_number |-> r, column_number |-> c,
      cell_content |-> content, extracted_date |-> date ]

(***************************************************************************)
(* Document-level fallbacks (title and date of the converted document).    *)
(***************************************************************************)
\* self.pdf_path.name
PdfName == "input.pdf"

Min(S) == CHOOSE x \in S : \A y \in S : x <= y

Max(S) == CHOOSE x \in S : \A y \in S : x >= y

\* re.search(r"(20\d{2}-\d{2}-\d{2})", text)
PageIsoSearch(text) ==
    LET starts == {i \in 1..Len(text) : IsoDateAt(text, i) /\ SubSeq(text, i, i + 1) = "20"}
    IN  IF starts = {} THEN None ELSE Some(SubSeq(text, Min(starts), Min(starts) + 9))

\* re.search(r"(\d{1,2}/\d{1,2}/\d{2,4})", text), greedy from the leftmost start
PageSlashSearch(text) ==
    LET fits(i, a, b, y) ==
            /\ DigitsAt(text, i, a) /\ Ch(text, i + a) = "/"
            /\ DigitsAt(text, i + a + 1, b) /\ Ch(text, i + a + b + 1) = "/"
            /\ DigitsAt(text, i + a + b + 2, y)
        starts == {i \in 1..Len(text) : \E a \in {1, 2}, b \in {1, 2}, y \in {2, 3, 4} : fits(i, a, b, y)}
    IN  IF starts = {} THEN None
        ELSE LET i == Min(starts)
                 a == Max({x \in {1, 2} : \E b \in {1, 2}, y \in {2, 3, 4} : fits(i, x, b, y)})
                 b == Max({x \in {1, 2} : \E y \in {2, 3, 4} : fits(i, a, x, y)})
                 y == Max({x \in {2, 3, 4} : fits(i, a, b, x)})
             IN  Some(SubSeq(text, i, i + a + b + y + 1))

\* re.search(r"([A-Za-z]{3,9} \d{1,2}, \d{4})", text)
PageLongSearch(text) ==
    LET fits(i, n, d) ==
            /\ i + n + d + 6 <= Len(text)
            /\ \A j \in i..(i + n - 1) : Ch(text, j) \in LetterSet
            /\ Ch(text, i + n) = " " /\ DigitsAt(text, i + n + 1, d)
            /\ Ch(text, i + n + d + 1) = "," /\ Ch(text, i + n + d + 2) = " "
            /\ DigitsAt(text, i + n + d + 3, 4)
        starts == {i \in 1..Len(text) : \E n \in 3..9, d \in {1, 2} : fits(i, n, d)}
    IN  IF starts = {} THEN None
        ELSE LET i == Min(starts)
                 n == Max({x \in 3..9 : \E d \in {1, 2} : fits(i, x, d)})
                 d == Max({x \in {1, 2} : fits(i, n, x)})
             IN  Some(SubSeq(text, i, i + n + d + 6))

\* the date-like substring of the first page, tried in the code's order
PageDateSearch(text) ==
    OrElse(PageIsoSearch(text), OrElse(PageSlashSearch(text), PageLongSearch(text)))

\* document_name after the metadata, first-page and file-name fallbacks;
\* the first page is one line of text
DocumentName(meta) ==
    IF meta.title # "" THEN meta.title
    ELSE IF Strip(meta.text) # "" THEN Slice(Strip(meta.text), 0, 255)
    ELSE PdfName

\* extracted_date after the metadata and first-page fallbacks
DocumentDate(meta) ==
    OrElse(IF meta.date # "" THEN _parse_pdf_date(Some(meta.date)) ELSE None,
           IF meta.text # "" THEN _parse_pdf_date(PageDateSearch(meta.text)) ELSE None)

(***************************************************************************)
(* The converted documents parse_tables is run on.                         *)
(***************************************************************************)
HeaderCells == <<"h1", "h2", "h3", "h4", "h5", "h6", "h7">>

FullRow == <<"X", "doc.pdf", "1", "1", "1", "Hello", "10-01-2026 09:00">>

DateRow == <<"a", "b", "1", "1", "1", "content", "10-01-2026">>

TimeRow == <<"", "", "", "", "", "", "14:30">>

PmRow == <<"", "", "", "", "", "", "1:23 PM">>

\* six cells: a numeric name, a content with a trailing date, no date cell
NumericRow == <<"", "42", "1", "2", "3", "Total 10-01-2026">>

Rows == {HeaderCells, FullRow, DateRow, TimeRow, PmRow, NumericRow}

\* document metadata: title and date fields, text of the first page
Metas ==
    { [title |-> "", date |-> "", text |-> ""],
      [title |-> "Annual Report", date |-> "2026-01-01", text |-> ""] }

\* how export_to_dataframe answers: positional columns, labelled columns, or an exception
Exports == {"range", "labelled", "fails"}

\* the non-empty sequences of at most n rows
RowSeqs(n) == UNION {[1..k -> Rows] : k \in 1..n}

\* a table with the data rows rs; a dataframe with labelled columns has the
\* header cells as its labels
MakeTable(export, rs) ==
    [export |-> export, columns |-> IF export = "labelled" THEN HeaderCells ELSE <<>>, data |-> rs]

RECURSIVE Documents(_, _)
\* the table lists of at most k tables and n data rows, no table without rows
Documents(k, n) ==
    IF k = 0 THEN {<<>>}
    ELSE {<<>>} \cup
         UNION { { <<MakeTable(e, rs)>> \o d : d \in Documents(k - 1, n - Len(rs)) }
                 : e \in Exports, rs \in RowSeqs(n) }

(***************************************************************************)
(* Documents of one table whose row varies in its cells or in its length.  *)
(***************************************************************************)
\* content cells: a trailing date in each accepted shape, and the near misses
Contents ==
    { "Total 10-01-2026", "Total  1/2/26", "Total 2026-01-05", "Total 10-01/2026",
      "A 1-1-2026 2-2-2026", "Total", "Total 10-01-2026 x", "Total10-01-2026",
      "Sum 110-01-2026", "9 2026-1-05", "Total 10-01-20261", "" }

\* date cells: empty, time-only, dates, and values of no recognised shape
RawDates == {"", "14:30", "1:23 PM", "10-01-2026", "2026-13-45", "Hello", "2026", "25:99"}

\* the date field of the metadata: absent, ISO, PDF dates (one with month 13)
\* and a bare year
MetaDates == {"", "2026-01-01", "D:20260105093000", "D:20261301", "2026"}

CellRow(content, date) == <<"", "5", "1", "2", "3", content, date>>

\* one table, as the dataframe of labelled columns or after a header row: a
\* row of varying content and date, alone or followed by a row that only has
\* a time; or a row of 0, 1, 7, 8 or 9 cells (empty, with a date in the 7th
\* and a time in the 8th cell, or not), alone or after a full row; or labelled
\* columns with a first body row that repeats the labels in whole or in part,
\* or has a header keyword in a cell, alone or before a further row
CellDocuments ==
    UNION { { <<MakeTable(e, (IF e = "labelled" THEN <<>> ELSE <<HeaderCells>>)
                             \o <<CellRow(c, d)>> \o rest)>>
              : e \in Exports, rest \in {<<>>, <<TimeRow>>} }
            : c \in Contents, d \in RawDates }
    \cup
    { <<MakeTable(e, (IF e = "labelled" THEN <<>> ELSE <<HeaderCells>>) \o before \o <<row>>)>>
      : e \in Exports, before \in {<<>>, <<FullRow>>},
        row \in { <<>>, <<"a">>, <<"", "", "", "", "", "", "">>,
                  <<"a", "b", "1", "1", "1", "c", "10-01-2026", "14:30">>,
                  <<"a", "b", "1", "1", "1", "c", "10-01-2026", "1:23 PM", "x">>,
                  <<"a", "b", "1", "1", "1", "c", "10-01-2026", "Jan 5">>,
                  <<"a", "b", "1", "1", "1", "c", "Hello", "14:30">>,
                  <<"a", "b", "1", "1", "1", "c", "10-01-2026 09:00", "14:30">> } }
    \cup
    { <<MakeTable("labelled", <<first>> \o rest)>>
      : rest \in {<<>>, <<HeaderCells>>, <<FullRow>>},
        first \in { <<"h1", "h2">>, <<"h1">>, <<"h9">>, <<" h1", "h2 ", "h3", "h4", "h5", "h6", "h7">>,
                    <<"h1", "h2", "h3", "h4", "h5", "h6", "h7", "h8">>,
                    <<"h1", "x", "h3", "h4", "h5", "h6", "h7">>,
                    <<"ID", "Document Name", "1", "1", "1", "c", "10-01-2026">>,
                    <<"x", "Update.pdf", "1", "1", "1", "c", "10-01-2026">>,
                    <<"x", "y.pdf", "Date", "1", "1", "content", "10-01-2026">> } }

(***************************************************************************)
(* State of one call of parse_tables.                                      *)
(***************************************************************************)
VARIABLES
    converts,         \* whether converter.convert returns a document for the file
    tables,           \* result.document.tables
    meta,             \* metadata and first page of result.document
    pc,               \* "idle", "convert", "tables", "rows", "fallback", "returned", "raised"
    document_name,    \* document-level name fallback
    extracted_date,   \* document-level date fallback
    table_idx,        \* index of the table being processed (1-based)
    row_idx,          \* index of the last row taken from the table
    df_rows,          \* materialised rows of the dataframe path
    src_rows,         \* df_rows as materialised, before any write-back
    last_seen,        \* last non-empty value seen per position
    prev_seventh,     \* date emitted for the previous row
    row_values,       \* the local row_values, None while unbound
    table_data_list,  \* the records appended so far
    trace,            \* per record: its table, its row and the row's shaped cells
    run,              \* number of the current call on this document
    first_result      \* what the first call returned

(***************************************************************************)
(* State of main.py: the listing of the input directory and the loop over  *)
(* it, and what the runs have printed.                                     *)
(***************************************************************************)
VARIABLES
    files,            \* os.listdir(PDF_INPUT_PATH) with what each file converts to
    file_idx,         \* index of the file the loop is at (0 before the first)
    main_pc,          \* "off", "loop", "parsing", "done"
    main_run,         \* number of the current run of main.py
    report            \* the lines printed so far: run, file and outcome

(***************************************************************************)
(* State of a DatabaseOperations object and of the database behind it.     *)
(***************************************************************************)
VARIABLES
    conn,             \* self.conn: None or the connection
    cursor,           \* self.cursor: None or the connection the cursor belongs to
    open_conns,       \* the connections opened and not closed
    opened,           \* how many connections were opened so far
    parsed_table_data,\* the committed rows of table parsed_table_data
    processed_files,  \* table processed_files: None until created, then its filenames
    db_result,        \* how the last call on the object ended and what it returned
    db_calls          \* number of calls made on the object

(***************************************************************************)
(* State of the search index and of the last call of the product-search    *)
(* service on it.                                                          *)
(***************************************************************************)
VARIABLES
    index_exists,     \* whether the index exists in the store
    create_calls,     \* the calls of client.indices.create: whether each succeeded
    bulk_requests,    \* the action lists handed to helpers.bulk
    api_result,       \* how the last call ended and what it returned
    api_calls         \* number of calls made

(***************************************************************************)
(* State of the DAG clv_drift_monitoring.                                  *)
(***************************************************************************)
VARIABLES
    dag               \* None before the first run; else the number of the run, the
                      \* state of each task instance, the XCom values, the tasks
                      \* executed in order, and the clv_model_training runs triggered

\* the variables of parse_tables
parser_vars ==
    << converts, tables, meta, pc, document_name, extracted_date, table_idx, row_idx,
       df_rows, src_rows, last_seen, prev_seventh, row_values, table_data_list, trace,
       run, first_result >>

main_vars == << files, file_idx, main_pc, main_run, report >>

db_vars ==
    << conn, cursor, open_conns, opened, parsed_table_data, processed_files, db_result,
       db_calls >>

search_vars == << index_exists, create_calls, bulk_requests, api_result, api_calls >>

vars == << parser_vars, main_vars, db_vars, search_vars, dag >>

\* what a step of parse_tables leaves alone: its input file, its caller, the
\* database, the search index and the DAG
outside == << converts, main_vars, db_vars, search_vars, dag >>

NoneSeen == [i \in 1..7 |-> None]

\* the locals of a call of parse_tables that has not started
FreshCall ==
    /\ document_name = None
    /\ extracted_date = None
    /\ table_idx = 0
    /\ row_idx = 0
    /\ df_rows = <<>>
    /\ src_rows = <<>>
    /\ last_seen = NoneSeen
    /\ prev_seventh = None
    /\ row_values = None
    /\ table_data_list = <<>>
    /\ trace = <<>>
    /\ run = 1
    /\ first_result = <<>>

\* main.py is not running
MainOff ==
    /\ files = <<>>
    /\ file_idx = 0
    /\ main_pc = "off"
    /\ main_run = 0
    /\ report = <<>>

\* DatabaseOperations.__init__ on an empty database
NewDatabaseOperations ==
    /\ conn = None
    /\ cursor = None
    /\ open_conns = {}
    /\ opened = 0
    /\ parsed_table_data = <<>>
    /\ processed_files = None
    /\ db_result = None
    /\ db_calls = 0

\* a store without the index, before any call of the service
NewStore ==
    /\ index_exists = FALSE
    /\ create_calls = <<>>
    /\ bulk_requests = <<>>
    /\ api_result = None
    /\ api_calls = 0

\* one call of parse_tables on a file the converter reads
Init ==
    /\ tables \in Documents(MaxTables, MaxRows)
    /\ meta \in Metas
    /\ converts = TRUE
    /\ pc = "convert"
    /\ FreshCall
    /\ MainOff
    /\ NewDatabaseOperations
    /\ NewStore
    /\ dag = None

\* one call of parse_tables on a document of CellDocuments
InitCells ==
    /\ tables \in CellDocuments
    /\ meta \in {[title |-> "", date |-> d, text |-> ""] : d \in MetaDates}
    /\ converts = TRUE
    /\ pc = "convert"
    /\ FreshCall
    /\ MainOff
    /\ NewDatabaseOperations
    /\ NewStore
    /\ dag = None

\* variant of Convert: the records of an earlier call are kept in the list
ConvertKeepList ==
    /\ pc = "convert"
    /\ converts
    /\ pc' = "tables"
    /\ document_name' = Some(DocumentName(meta))
    /\ extracted_date' = DocumentDate(meta)
    /\ UNCHANGED << tables, meta, table_idx, row_idx, df_rows, src_rows, last_seen,
                    prev_seventh, row_values, table_data_list, trace, run, first_result >>
    /\ UNCHANGED outside

\* converter.convert, the empty result list and the document-level fallbacks
\* (lines 28-212)
Convert ==
    /\ pc = "convert"
    /\ converts
    /\ pc' = "tables"
    /\ document_name' = Some(DocumentName(meta))
    /\ extracted_date' = DocumentDate(meta)
    /\ table_data_list' = <<>>
    /\ trace' = <<>>
    /\ UNCHANGED << tables, meta, table_idx, row_idx, df_rows, src_rows, last_seen,
                    prev_seventh, row_values, run, first_result >>
    /\ UNCHANGED outside

\* variant of BeginDataframe: the carry state of the table before is kept
BeginDataframeKeepCarry ==
    /\ pc = "tables"
    /\ table_idx < Len(tables)
    /\ tables[table_idx + 1].export # "fails"
    /\ table_idx' = table_idx + 1
    /\ df_rows' = DfRows(tables[table_idx + 1])
    /\ src_rows' = df_rows'
    /\ row_idx' = 0
    /\ pc' = IF df_rows' = <<>> THEN "tables" ELSE "rows"
    /\ UNCHANGED << tables, meta, document_name, extracted_date, row_values, last_seen,
                    prev_seventh, table_data_list, trace, run, first_result >>
    /\ UNCHANGED outside

\* next table, export_to_dataframe succeeds: fresh carry state, rows materialised
BeginDataframe ==
    /\ pc = "tables"
    /\ table_idx < Len(tables)
    /\ tables[table_idx + 1].export # "fails"
    /\ table_idx' = table_idx + 1
    /\ last_seen' = NoneSeen
    /\ df_rows' = DfRows(tables[table_idx + 1])
    /\ src_rows' = df_rows'
    /\ prev_seventh' = None
    /\ row_idx' = 0
    /\ pc' = IF df_rows' = <<>> THEN "tables" ELSE "rows"
    /\ UNCHANGED << tables, meta, document_name, extracted_date, row_values,
                    table_data_list, trace, run, first_result >>
    /\ UNCHANGED outside

\* the first row of the first table is skipped
SkipHeader ==
    /\ pc = "rows"
    /\ row_idx < Len(df_rows)
    /\ table_idx = 1 /\ row_idx + 1 = 1
    /\ row_idx' = row_idx + 1
    /\ row_values' = Some(df_rows[row_idx + 1])
    /\ pc' = IF row_idx' = Len(df_rows) THEN "tables" ELSE "rows"
    /\ UNCHANGED << tables, meta, document_name, extracted_date, table_idx, df_rows,
                    src_rows, last_seen, prev_seventh, table_data_list, trace, run,
                    first_result >>
    /\ UNCHANGED outside

\* the row after row r of the materialised table, None for the last row
NextRow(rows, r) == IF r < Len(rows) THEN Some(rows[r + 1]) ELSE None

\* the materialised table after row r: the row itself merged and padded in
\* place, the next row's 7th cell overwritten by the look-ahead branch
RowsAfter(rows, r, writeback) ==
    [i \in 1..Len(rows) |->
        IF i = r THEN PadRow(MergeDateTime(rows[r]))
        ELSE IF i = r + 1 /\ writeback # None THEN [rows[i] EXCEPT ![7] = writeback[1]]
        ELSE rows[i]]

\* the record of a row from its forward-filled cells and its reconciled date
RowRecord(filled, seen, date) ==
    TableData(ResolveName(filled, seen), _to_int_safe(filled[3]), _to_int_safe(filled[4]),
              _to_int_safe(filled[5]), _strip_trailing_date(filled[6]), date)

\* the assignments of one pass of the row loop, for row r with forward-filled
\* cells filled and reconciled date resolved
EmitRow(r, filled, resolved) ==
    /\ row_idx' = r
    /\ row_values' = Some(filled)
    /\ df_rows' = RowsAfter(df_rows, r, resolved.writeback)
    /\ table_data_list' = Append(table_data_list, RowRecord(filled, last_seen, resolved.date))
    /\ trace' = Append(trace, [table |-> table_idx, row |-> r, cells |-> ShapeRow(src_rows[r])])
    /\ prev_seventh' = resolved.date
    /\ last_seen' = UpdateLastSeen(last_seen, filled)
    /\ pc' = IF r = Len(df_rows) THEN "tables" ELSE "rows"

\* date reconciliation of row r, then the record and the carry update
ReconcileRow(r, filled) ==
    EmitRow(r, filled, ResolveDate(filled[7], prev_seventh, NextRow(df_rows, r), extracted_date))

\* one row of the dataframe path (lines 306-426)
ProcessRow ==
    /\ pc = "rows"
    /\ row_idx < Len(df_rows)
    /\ ~(table_idx = 1 /\ row_idx + 1 = 1)
    /\ ReconcileRow(row_idx + 1, ForwardFill(ShapeRow(df_rows[row_idx + 1]), last_seen))
    /\ UNCHANGED << tables, meta, document_name, extracted_date, table_idx, src_rows,
                    run, first_result >>
    /\ UNCHANGED outside

\* the merge of the fallback path: its date test has no colon check
MergeDateTimeLocal(row) ==
    IF /\ Len(row) >= 8
       /\ \E i \in 1..Len(row[7]) :
             IsoDateAt(row[7], i) \/ SepDateLens(row[7], i) # {} \/ LongDateAt(row[7], i)
       /\ TimeOnlyRe(row[8])
    THEN LET tm == TimeSearch(row[8])
             seventh == row[7] \o " " \o (IF tm # None THEN tm[1] ELSE row[8])
         IN  SubSeq(row, 1, 6) \o <<seventh>> \o SubSeq(row, 9, Len(row))
    ELSE row

\* next table, export_to_dataframe raises and the table has a data attribute:
\* fresh carry state for the fallback loop over table.data
BeginFallback ==
    /\ pc = "tables"
    /\ table_idx < Len(tables)
    /\ tables[table_idx + 1].export = "fails"
    /\ table_idx' = table_idx + 1
    /\ last_seen' = NoneSeen
    /\ prev_seventh' = None
    /\ row_idx' = 0
    /\ pc' = "fallback"
    /\ UNCHANGED << tables, meta, document_name, extracted_date, df_rows, src_rows,
                    row_values, table_data_list, trace, run, first_result >>
    /\ UNCHANGED outside

\* one pass of the loop over table.data (lines 437-476): the cells are
\* stripped and, except for the skipped header, merged, padded and truncated
FallbackRow ==
    /\ pc = "fallback"
    /\ row_idx < Len(tables[table_idx].data)
    /\ LET r == row_idx + 1
           stripped == [i \in 1..Len(tables[table_idx].data[r]) |-> Strip(tables[table_idx].data[r][i])]
       IN  /\ row_idx' = r
           /\ row_values' =
                 IF table_idx = 1 /\ r = 1 THEN Some(stripped)
                 ELSE Some(SubSeq(PadRow(MergeDateTimeLocal(stripped)), 1, 7))
    /\ UNCHANGED << tables, meta, pc, document_name, extracted_date, table_idx, df_rows,
                    src_rows, last_seen, prev_seventh, table_data_list, trace, run,
                    first_result >>
    /\ UNCHANGED outside

\* whether the statement "while len(row_values) < 7:" that follows the loop
\* raises: row_values is unbound, or the body is entered, where it either
\* indexes past the end of row_values or calls _strip_trailing_date_local
\* before its definition
FallbackRaises == row_values = None \/ Len(row_values[1]) < 7

\* the rest of the fallback path (lines 478-607) sits after the loop, in the
\* body of that while statement: with 7 cells in row_values it is not run
FallbackTail ==
    /\ pc = "fallback"
    /\ row_idx = Len(tables[table_idx].data)
    /\ pc' = IF FallbackRaises THEN "raised" ELSE "tables"
    /\ row_values' =
          IF row_values # None /\ Len(row_values[1]) < 7
          THEN Some(Append(row_values[1], "")) ELSE row_values
    /\ UNCHANGED << tables, meta, document_name, extracted_date, table_idx, row_idx,
                    df_rows, src_rows, last_seen, prev_seventh, table_data_list, trace,
                    run, first_result >>
    /\ UNCHANGED outside

\* return table_data_list
Return ==
    /\ pc = "tables"
    /\ table_idx = Len(tables)
    /\ pc' = "returned"
    /\ UNCHANGED << tables, meta, document_name, extracted_date, table_idx, row_idx,
                    df_rows, src_rows, last_seen, prev_seventh, row_values,
                    table_data_list, trace, run, first_result >>
    /\ UNCHANGED outside

\* a second call of parse_tables on the same document: the first call's
\* result is with the caller, the locals of the new call are unbound
Reparse ==
    /\ pc = "returned"
    /\ run = 1
    /\ run' = 2
    /\ first_result' = table_data_list
    /\ pc' = "convert"
    /\ document_name' = None
    /\ extracted_date' = None
    /\ table_idx' = 0
    /\ row_idx' = 0
    /\ df_rows' = <<>>
    /\ src_rows' = <<>>
    /\ last_seen' = NoneSeen
    /\ prev_seventh' = None
    /\ row_values' = None
    /\ UNCHANGED << tables, meta, table_data_list, trace >>
    /\ UNCHANGED outside

Next ==
    \/ Convert
    \/ BeginDataframe
    \/ SkipHeader
    \/ ProcessRow
    \/ BeginFallback
    \/ FallbackRow
    \/ FallbackTail
    \/ Return

Spec == Init /\ [][Next]_vars

NextTwice == Next \/ Reparse

SpecTwice == Init /\ [][NextTwice]_vars

SpecCells == InitCells /\ [][Next]_vars

(***************************************************************************)
(* DatabaseOperations.  The methods are functions of the value d that      *)
(* holds the object's fields and the database: d.pending are the rows of   *)
(* the open transaction, d.exc the exception on its way to the caller,     *)
(* d.printed the exception a handler printed, d.value what is returned.    *)
(***************************************************************************)
\* how the calls to psycopg2 of one method end: all succeed, or the named one raises
DbOutcomes == {"ok", "connect_fails", "cursor_fails", "execute_fails", "commit_fails"}

\* the object's fields and the database as one value, at the start of a call
Self ==
    [ conn |-> conn, cursor |-> cursor, open |-> open_conns, opened |-> opened,
      rows |-> parsed_table_data, files |-> processed_files,
      pending |-> <<>>, exc |-> None, printed |-> None, value |-> None ]

\* connect (lines 12-18): psycopg2.connect, then conn.cursor(); either may
\* raise, and the exception is raised again
connect(d, o) ==
    IF o = "connect_fails" THEN [d EXCEPT !.exc = Some("OperationalError")]
    ELSE IF o = "cursor_fails"
         THEN [d EXCEPT !.conn = Some(d.opened + 1), !.open = @ \cup {d.opened + 1},
                        !.opened = @ + 1, !.exc = Some("OperationalError")]
    ELSE [d EXCEPT !.conn = Some(d.opened + 1), !.cursor = Some(d.opened + 1),
                   !.open = @ \cup {d.opened + 1}, !.opened = @ + 1]

\* disconnect (lines 20-26): closing the connection drops its open transaction
disconnect(d) ==
    [d EXCEPT !.cursor = None, !.conn = None, !.pending = <<>>,
              !.open = IF d.conn # None THEN @ \ {d.conn[1]} ELSE @]

\* _safe_int (lines 39-51) on a field of a TableData: None stays None, an int passes
_safe_int(value) == IF value = None THEN None ELSE value

\* variant of DataTuple: ids counted from 0, as enumerate does by default
DataTupleFromZero(idx, data) ==
    [ id |-> idx - 1,
      document_name |-> IF data.document_name # "" THEN data.document_name ELSE "",
      table_number |-> _safe_int(data.table_number),
      row_number |-> _safe_int(data.row_number),
      column_number |-> _safe_int(data.column_number),
      cell_content |-> IF data.cell_content # "" THEN data.cell_content ELSE "",
      extracted_date |-> IF data.extracted_date # None THEN data.extracted_date[1] ELSE "" ]

\* the tuple of record idx of the list (lines 54-62)
DataTuple(idx, data) ==
    [ id |-> idx,
      document_name |-> IF data.document_name # "" THEN data.document_name ELSE "",
      table_number |-> _safe_int(data.table_number),
      row_number |-> _safe_int(data.row_number),
      column_number |-> _safe_int(data.column_number),
      cell_content |-> IF data.cell_content # "" THEN data.cell_content ELSE "",
      extracted_date |-> IF data.extracted_date # None THEN data.extracted_date[1] ELSE "" ]

\* an element of the list the loop can read the fields of (None has none)
IsTableData(data) == DOMAIN data # {}

\* the try block of insert_table_data after connect (lines 31-66): the tuples
\* are built, execute_batch puts them in the transaction, commit persists it
InsertTry(d, table_data_list_, o) ==
    IF d.exc # None THEN d
    ELSE IF \E i \in 1..Len(table_data_list_) : ~IsTableData(table_data_list_[i])
         THEN [d EXCEPT !.exc = Some("AttributeError")]
    ELSE IF o = "execute_fails" THEN [d EXCEPT !.exc = Some("DatabaseError")]
    ELSE IF o = "commit_fails"
         THEN [d EXCEPT !.exc = Some("DatabaseError"),
                        !.pending = [i \in 1..Len(table_data_list_) |->
                                        DataTuple(i, table_data_list_[i])]]
    ELSE [d EXCEPT !.rows = @ \o [i \in 1..Len(table_data_list_) |->
                                      DataTuple(i, table_data_list_[i])]]

\* insert_table_data (lines 28-72): the try block; on an exception the
\* handler prints it, calls self.conn.rollback() (which raises on None) and
\* raises; in the end disconnect
insert_table_data(d, table_data_list_, o) ==
    LET tried == InsertTry(connect(d, o), table_data_list_, o)
    IN  disconnect(IF tried.exc = None THEN tried
                   ELSE IF tried.conn = None
                        THEN [tried EXCEPT !.printed = tried.exc, !.exc = Some("AttributeError")]
                   ELSE [tried EXCEPT !.printed = tried.exc, !.pending = <<>>])

\* the except blocks that swallow (lines 103-108, 123-128): the exception is
\* printed and a rollback is tried
Swallow(d) ==
    IF d.exc = None THEN d ELSE [d EXCEPT !.printed = d.exc, !.exc = None, !.pending = <<>>]

\* _ensure_processed_table (lines 112-130): connect, CREATE TABLE IF NOT
\* EXISTS and commit; exceptions are swallowed; in the end disconnect
_ensure_processed_table(d, o) ==
    LET c == connect(d, o)
    IN  disconnect(Swallow(
            IF c.exc # None THEN c
            ELSE IF o \in {"execute_fails", "commit_fails"}
                 THEN [c EXCEPT !.exc = Some("DatabaseError")]
            ELSE [c EXCEPT !.files = IF @ = None THEN Some({}) ELSE @]))

\* the lists handed to insert_table_data: empty, one and two records, and a
\* list with an element that is no TableData
Batches ==
    { <<>>,
      <<TableData("test.pdf", Some(1), Some(1), Some(1), "Test Content", None)>>,
      <<TableData("test.pdf", Some(1), Some(1), Some(1), "Test Content", None),
        TableData("", None, Some(1), Some(2), "", Some("10-01-2026 09:00"))>>,
      <<TableData("test.pdf", Some(1), Some(1), Some(1), "Test Content", None), None>> }

\* names of input files
FileNames == {"a.pdf", "B.PDF", "notes.txt"}

\* the call with argument arg ends: the fields and the database are those of d
Ends(d, call, arg) ==
    /\ conn' = d.conn
    /\ cursor' = d.cursor
    /\ open_conns' = d.open
    /\ opened' = d.opened
    /\ parsed_table_data' = d.rows
    /\ processed_files' = d.files
    /\ db_result' = Some([call |-> call, arg |-> arg, exc |-> d.exc, printed |-> d.printed,
                          value |-> d.value])
    /\ db_calls' = db_calls + 1

\* db.connect()
Connect ==
    /\ db_calls < MaxCalls
    /\ \E o \in {"ok", "connect_fails", "cursor_fails"} : Ends(connect(Self, o), "connect", None)
    /\ UNCHANGED << parser_vars, main_vars, search_vars, dag >>

\* db.disconnect()
Disconnect ==
    /\ db_calls < MaxCalls
    /\ Ends(disconnect(Self), "disconnect", None)
    /\ UNCHANGED << parser_vars, main_vars, search_vars, dag >>

\* db.insert_table_data(b)
InsertTableData ==
    /\ db_calls < MaxCalls
    /\ \E b \in Batches, o \in DbOutcomes :
          Ends(insert_table_data(Self, b, o), "insert_table_data", b)
    /\ UNCHANGED << parser_vars, main_vars, search_vars, dag >>

\* db.document_already_processed(f) (lines 74-93): _ensure_processed_table
\* (ending as o1), connect and the SELECT, which raises when the table does
\* not exist; on an exception False is returned; in the end disconnect
DocumentAlreadyProcessed ==
    /\ db_calls < MaxCalls
    /\ \E f \in FileNames, o1 \in DbOutcomes, o2 \in DbOutcomes \ {"commit_fails"} :
          LET c == connect(_ensure_processed_table(Self, o1), o2)
              tried == IF c.exc # None THEN c
                       ELSE IF o2 = "execute_fails" \/ c.files = None
                            THEN [c EXCEPT !.exc = Some("DatabaseError")]
                       ELSE [c EXCEPT !.value = Some(f \in c.files[1])]
          IN  Ends(disconnect(IF tried.exc = None THEN tried
                              ELSE [tried EXCEPT !.printed = tried.exc, !.exc = None,
                                                 !.value = Some(FALSE)]),
                   "document_already_processed", f)
    /\ UNCHANGED << parser_vars, main_vars, search_vars, dag >>

\* db.mark_document_processed(f) (lines 95-110): _ensure_processed_table
\* (ending as o1), connect, INSERT .. ON CONFLICT DO NOTHING and commit;
\* exceptions are swallowed; in the end disconnect
MarkDocumentProcessed ==
    /\ db_calls < MaxCalls
    /\ \E f \in FileNames, o1 \in DbOutcomes, o2 \in DbOutcomes :
          LET c == connect(_ensure_processed_table(Self, o1), o2)
          IN  Ends(disconnect(Swallow(
                       IF c.exc # None THEN c
                       ELSE IF o2 \in {"execute_fails", "commit_fails"} \/ c.files = None
                            THEN [c EXCEPT !.exc = Some("DatabaseError")]
                       ELSE [c EXCEPT !.files = Some(@[1] \cup {f})])),
                   "mark_document_processed", f)
    /\ UNCHANGED << parser_vars, main_vars, search_vars, dag >>

\* no call of parse_tables is under way
ParserIdle ==
    /\ converts = TRUE
    /\ tables = <<>>
    /\ meta = [title |-> "", date |-> "", text |-> ""]
    /\ pc = "idle"
    /\ FreshCall

\* a new DatabaseOperations object and any sequence of calls on it
InitDb == ParserIdle /\ MainOff /\ NewDatabaseOperations /\ NewStore /\ dag = None

NextDb ==
    \/ Connect
    \/ Disconnect
    \/ InsertTableData
    \/ DocumentAlreadyProcessed
    \/ MarkDocumentProcessed

SpecDb == InitDb /\ [][NextDb]_vars

(***************************************************************************)
(* main.py: every PDF of the input directory is parsed and its records     *)
(* are inserted; run after run on the same directory and database.         *)
(***************************************************************************)
\* what a file of the directory converts to: nothing (convert raises), a
\* document without tables, one with a table of one row, and one whose only
\* table fails to export and has a short row
FileDocs ==
    { [converts |-> FALSE, tables |-> <<>>],
      [converts |-> TRUE, tables |-> <<>>],
      [converts |-> TRUE, tables |-> <<MakeTable("range", <<HeaderCells, FullRow>>)>>],
      [converts |-> TRUE, tables |-> <<MakeTable("fails", <<NumericRow>>)>>] }

RECURSIVE Listings(_, _)
\* the listings of at most n files with different names out of names; only
\* what a .pdf file converts to matters
Listings(names, n) ==
    IF n = 0 THEN {<<>>}
    ELSE {<<>>} \cup
         UNION { { <<[name |-> fd[1], doc |-> fd[2]]>> \o rest
                   : rest \in Listings(names \ {fd[1]}, n - 1) }
                 : fd \in { fd \in names \X FileDocs :
                              fd[1] = "notes.txt" => (fd[2].converts /\ fd[2].tables = <<>>) } }

\* pdf_file.lower().endswith('.pdf')
IsPdf(pdf_file) ==
    Len(pdf_file) >= 4 /\ SubSeq(Lower(pdf_file), Len(pdf_file) - 3, Len(pdf_file)) = ".pdf"

\* main() is called on a directory, with a new DatabaseOperations object
InitMain ==
    /\ files \in Listings(FileNames, MaxFiles)
    /\ file_idx = 0
    /\ main_pc = "loop"
    /\ main_run = 1
    /\ report = <<>>
    /\ ParserIdle
    /\ NewDatabaseOperations
    /\ NewStore
    /\ dag = None

\* the call of parse_tables is over: its locals are gone and no document is
\* held, which is what the next call starts from
CallOver ==
    /\ pc' = "idle"
    /\ converts' = TRUE
    /\ tables' = <<>>
    /\ document_name' = None
    /\ extracted_date' = None
    /\ table_idx' = 0
    /\ row_idx' = 0
    /\ df_rows' = <<>>
    /\ src_rows' = <<>>
    /\ last_seen' = NoneSeen
    /\ prev_seventh' = None
    /\ row_values' = None
    /\ table_data_list' = <<>>
    /\ trace' = <<>>
    /\ UNCHANGED << meta, run, first_result >>

\* the line printed for the file the loop is at; the line of the handler of
\* main (line 34) gives the exception, not the file
Line(outcome) ==
    [run |-> main_run,
     file |-> IF outcome = "error" THEN "" ELSE files[file_idx].name,
     outcome |-> outcome]

\* a file that is no PDF is passed over (line 19)
SkipFile ==
    /\ main_pc = "loop"
    /\ file_idx < Len(files)
    /\ ~IsPdf(files[file_idx + 1].name)
    /\ file_idx' = file_idx + 1
    /\ UNCHANGED << files, main_pc, main_run, report, parser_vars, db_vars, search_vars, dag >>

\* PDFParser(pdf_path).parse_tables() is called on the next PDF (lines 20-24);
\* no call is under way, so the locals are those of a new call
ParseFile ==
    /\ main_pc = "loop"
    /\ file_idx < Len(files)
    /\ IsPdf(files[file_idx + 1].name)
    /\ file_idx' = file_idx + 1
    /\ main_pc' = "parsing"
    /\ converts' = files[file_idx + 1].doc.converts
    /\ tables' = files[file_idx + 1].doc.tables
    /\ pc' = "convert"
    /\ UNCHANGED << meta, document_name, extracted_date, table_idx, row_idx, df_rows, src_rows,
                    last_seen, prev_seventh, row_values, table_data_list, trace, run,
                    first_result >>
    /\ UNCHANGED << files, main_run, report, db_vars, search_vars, dag >>

\* variant of ConvertRaises: the exception of converter.convert is swallowed
\* and the empty list returned
ConvertSwallows ==
    /\ pc = "convert"
    /\ ~converts
    /\ pc' = "returned"
    /\ UNCHANGED << tables, meta, document_name, extracted_date, table_idx, row_idx, df_rows,
                    src_rows, last_seen, prev_seventh, row_values, table_data_list, trace,
                    run, first_result >>
    /\ UNCHANGED outside

\* converter.convert raises (line 29): the handler of parse_tables prints
\* and raises again (lines 611-615)
ConvertRaises ==
    /\ pc = "convert"
    /\ ~converts
    /\ pc' = "raised"
    /\ UNCHANGED << tables, meta, document_name, extracted_date, table_idx, row_idx, df_rows,
                    src_rows, last_seen, prev_seventh, row_values, table_data_list, trace,
                    run, first_result >>
    /\ UNCHANGED outside

\* parse_tables returned (lines 27-31): a list with records is inserted and
\* the file reported as processed, unless insert_table_data raises, which
\* ends the run in the handler of main (lines 33-34); an empty list is
\* reported as such
StoreFile ==
    /\ main_pc = "parsing"
    /\ pc = "returned"
    /\ IF table_data_list = <<>>
       THEN /\ report' = Append(report, Line("no table data"))
            /\ main_pc' = "loop"
            /\ UNCHANGED db_vars
       ELSE \E o \in DbOutcomes :
              /\ Ends(insert_table_data(Self, table_data_list, o), "insert_table_data",
                      table_data_list)
              /\ report' = Append(report, Line(IF db_result'[1].exc = None
                                               THEN "processed" ELSE "error"))
              /\ main_pc' = IF db_result'[1].exc = None THEN "loop" ELSE "done"
    /\ CallOver
    /\ UNCHANGED << files, file_idx, main_run, search_vars, dag >>

\* parse_tables raised: the handler of main prints the error and main ends
\* (lines 33-34)
ParseFails ==
    /\ main_pc = "parsing"
    /\ pc = "raised"
    /\ report' = Append(report, Line("error"))
    /\ main_pc' = "done"
    /\ CallOver
    /\ UNCHANGED << files, file_idx, main_run, db_vars, search_vars, dag >>

\* the loop is through the listing
MainEnds ==
    /\ main_pc = "loop"
    /\ file_idx = Len(files)
    /\ main_pc' = "done"
    /\ UNCHANGED << files, file_idx, main_run, report, parser_vars, db_vars, search_vars, dag >>

\* main.py is run again on the same directory and database, with a new
\* DatabaseOperations object
RunAgain ==
    /\ main_pc = "done"
    /\ main_run < MaxRuns
    /\ main_run' = main_run + 1
    /\ main_pc' = "loop"
    /\ file_idx' = 0
    /\ conn' = None
    /\ cursor' = None
    /\ db_result' = None
    /\ db_calls' = 0
    /\ UNCHANGED << files, report, open_conns, opened, parsed_table_data, processed_files,
                    parser_vars, search_vars, dag >>

NextMain ==
    \/ SkipFile
    \/ ParseFile
    \/ Next
    \/ ConvertRaises
    \/ StoreFile
    \/ ParseFails
    \/ MainEnds
    \/ RunAgain

SpecMain == InitMain /\ [][NextMain]_vars

(***************************************************************************)
(* The product search service: connection.py and ingestor.py.  Calls are   *)
(* made one after another on one store; how the calls to the store end is  *)
(* chosen with each call.                                                  *)
(***************************************************************************)
\* the product lists handed to bulk_index_products: none, one, two, and two
\* with the same id
ProductLists ==
    { <<>>,
      <<[id |-> "p1", name |-> "Laptop", created_at |-> [date |-> "2026-01-10", time |-> "09:00:00"]]>>,
      <<[id |-> "p1", name |-> "Laptop", created_at |-> [date |-> "2026-01-10", time |-> "09:00:00"]],
        [id |-> "p2", name |-> "Phone", created_at |-> [date |-> "2026-01-11", time |-> "10:30:00"]]>>,
      <<[id |-> "p1", name |-> "Laptop", created_at |-> [date |-> "2026-01-10", time |-> "09:00:00"]],
        [id |-> "p1", name |-> "Laptop Pro", created_at |-> [date |-> "2026-01-12", time |-> "00:00:00"]]>> }

\* Product.to_dict: the fields, created_at in ISO format
to_dict(product) ==
    [product EXCEPT !.created_at = product.created_at.date \o "T" \o product.created_at.time]

\* the service starts on a store that has the index or not
InitSearch ==
    /\ index_exists \in BOOLEAN
    /\ create_calls = <<>>
    /\ bulk_requests = <<>>
    /\ api_result = None
    /\ api_calls = 0
    /\ ParserIdle
    /\ MainOff
    /\ NewDatabaseOperations
    /\ dag = None

\* variant of CreateIndexIfNotExists: indices.create is called without
\* asking whether the index exists
CreateIndexUnasked ==
    /\ api_calls < MaxRequests
    /\ \E o \in {"ok", "create_fails"} :
         /\ create_calls' = Append(create_calls, o = "ok" /\ ~index_exists)
         /\ index_exists' = (index_exists \/ o = "ok")
         /\ api_result' = Some([call |-> "create_index_if_not_exists",
                                exc |-> IF o = "ok" /\ ~index_exists THEN None
                                        ELSE Some("RequestError"),
                                value |-> IF o = "ok" /\ ~index_exists THEN Some(TRUE) ELSE None])
    /\ api_calls' = api_calls + 1
    /\ UNCHANGED << bulk_requests, parser_vars, main_vars, db_vars, dag >>

\* create_index_if_not_exists(client) (lines 32-76): False when the index
\* exists; otherwise the mapping is loaded, indices.create called and True
\* returned; an exception of any step is logged and raised again
CreateIndexIfNotExists ==
    /\ api_calls < MaxRequests
    /\ \E o \in {"ok", "exists_fails", "mapping_fails", "create_fails"} :
         LET created == ~index_exists /\ o = "ok"
             asked == ~index_exists /\ o \in {"ok", "create_fails"}
         IN  /\ create_calls' = IF asked THEN Append(create_calls, o = "ok") ELSE create_calls
             /\ index_exists' = (index_exists \/ created)
             /\ api_result' =
                   Some([call |-> "create_index_if_not_exists",
                         exc |-> IF o = "exists_fails" THEN Some("ConnectionError")
                                 ELSE IF index_exists \/ o = "ok" THEN None
                                 ELSE IF o = "mapping_fails" THEN Some("JSONDecodeError")
                                 ELSE Some("RequestError"),
                         value |-> IF o = "exists_fails" THEN None
                                   ELSE IF index_exists THEN Some(FALSE)
                                   ELSE IF o = "ok" THEN Some(TRUE)
                                   ELSE None])
    /\ api_calls' = api_calls + 1
    /\ UNCHANGED << bulk_requests, parser_vars, main_vars, db_vars, dag >>

\* variant of BulkIndexProducts: success is reported whatever failed
BulkIndexReportsSuccess ==
    /\ api_calls < MaxRequests
    /\ \E products \in ProductLists :
         LET actions == [i \in 1..Len(products) |->
                           [_id |-> to_dict(products[i]).id, _source |-> to_dict(products[i])]]
         IN  \E failed \in 0..Len(actions) :
               /\ bulk_requests' = Append(bulk_requests, actions)
               /\ api_result' = Some([call |-> "bulk_index_products", products |-> products,
                                      exc |-> None,
                                      reported |-> Some(<<Len(actions) - failed, failed>>),
                                      value |-> Some([success |-> TRUE,
                                                      indexed |-> Len(actions) - failed,
                                                      failed |-> failed])])
    /\ api_calls' = api_calls + 1
    /\ UNCHANGED << index_exists, create_calls, parser_vars, main_vars, db_vars, dag >>

\* bulk_index_products(client, products) (lines 11-40): one action per
\* product; no action, no request; otherwise helpers.bulk reports how many
\* actions succeeded and failed, or raises, which is logged and raised again
BulkIndexProducts ==
    /\ api_calls < MaxRequests
    /\ \E products \in ProductLists :
         LET actions == [i \in 1..Len(products) |->
                           [_id |-> to_dict(products[i]).id, _source |-> to_dict(products[i])]]
         IN  IF actions = <<>>
             THEN /\ bulk_requests' = bulk_requests
                  /\ api_result' = Some([call |-> "bulk_index_products", products |-> products,
                                         exc |-> None, reported |-> None,
                                         value |-> Some([success |-> TRUE, indexed |-> 0,
                                                         failed |-> 0])])
             ELSE /\ bulk_requests' = Append(bulk_requests, actions)
                  /\ \/ \E failed \in 0..Len(actions) :
                          api_result' = Some([call |-> "bulk_index_products",
                                              products |-> products, exc |-> None,
                                              reported |-> Some(<<Len(actions) - failed, failed>>),
                                              value |-> Some([success |-> failed = 0,
                                                              indexed |-> Len(actions) - failed,
                                                              failed |-> failed])])
                     \/ api_result' = Some([call |-> "bulk_index_products",
                                            products |-> products,
                                            exc |-> Some("ConnectionError"),
                                            reported |-> None, value |-> None])
    /\ api_calls' = api_calls + 1
    /\ UNCHANGED << index_exists, create_calls, parser_vars, main_vars, db_vars, dag >>

\* variant of SearchProducts: the number of pages rounded down
SearchProductsFloor ==
    /\ api_calls < MaxRequests
    /\ \E page \in 0..MaxPage, size \in 0..MaxSize, sort_by \in {"", "price:desc", "a:b:c"},
          response \in {None} \cup {Some(total) : total \in 0..MaxTotal} :
         LET request == [page |-> page, size |-> size, sort_by |-> sort_by]
             colons == {i \in 1..Len(sort_by) : SubSeq(sort_by, i, i) = ":"}
             colon == CHOOSE i \in colons : TRUE
             sort_options ==
                 IF sort_by = "" THEN <<>>
                 ELSE IF colons = {} THEN <<[field |-> sort_by, order |-> "asc"]>>
                 ELSE <<[field |-> SubSeq(sort_by, 1, colon - 1),
                         order |-> SubSeq(sort_by, colon + 1, Len(sort_by))]>>
             body == [from |-> (page - 1) * size, size |-> size, sort |-> sort_options]
         IN  api_result' =
                 IF Cardinality(colons) > 1
                 THEN Some([call |-> "search_products", request |-> request, body |-> None,
                            exc |-> Some("ValueError"), value |-> None])
                 ELSE IF response = None
                 THEN Some([call |-> "search_products", request |-> request, body |-> Some(body),
                            exc |-> Some("ConnectionError"), value |-> None])
                 ELSE IF response[1] > 0 /\ size = 0
                 THEN Some([call |-> "search_products", request |-> request, body |-> Some(body),
                            exc |-> Some("ZeroDivisionError"), value |-> None])
                 ELSE Some([call |-> "search_products", request |-> request, body |-> Some(body),
                            exc |-> None,
                            value |-> Some([total |-> response[1], page |-> page, size |-> size,
                                            total_pages |-> IF response[1] > 0
                                                            THEN response[1] \div size ELSE 0])])
    /\ api_calls' = api_calls + 1
    /\ UNCHANGED << index_exists, create_calls, bulk_requests, parser_vars, main_vars, db_vars, dag >>

\* search_products(client, request) (lines 9-109): the sort option is split
\* at its colon, the query is sent with from and size, and the response is
\* built from the number of hits client.search reports (response, None when
\* it raises); an exception (of the split, of client.search, of the
\* division) is logged and raised again
SearchProducts ==
    /\ api_calls < MaxRequests
    /\ \E page \in 0..MaxPage, size \in 0..MaxSize, sort_by \in {"", "price:desc", "a:b:c"},
          response \in {None} \cup {Some(total) : total \in 0..MaxTotal} :
         LET request == [page |-> page, size |-> size, sort_by |-> sort_by]
             colons == {i \in 1..Len(sort_by) : SubSeq(sort_by, i, i) = ":"}
             colon == CHOOSE i \in colons : TRUE
             sort_options ==
                 IF sort_by = "" THEN <<>>
                 ELSE IF colons = {} THEN <<[field |-> sort_by, order |-> "asc"]>>
                 ELSE <<[field |-> SubSeq(sort_by, 1, colon - 1),
                         order |-> SubSeq(sort_by, colon + 1, Len(sort_by))]>>
             body == [from |-> (page - 1) * size, size |-> size, sort |-> sort_options]
         IN  api_result' =
                 IF Cardinality(colons) > 1
                 THEN Some([call |-> "search_products", request |-> request, body |-> None,
                            exc |-> Some("ValueError"), value |-> None])
                 ELSE IF response = None
                 THEN Some([call |-> "search_products", request |-> request, body |-> Some(body),
                            exc |-> Some("ConnectionError"), value |-> None])
                 ELSE IF response[1] > 0 /\ size = 0
                 THEN Some([call |-> "search_products", request |-> request, body |-> Some(body),
                            exc |-> Some("ZeroDivisionError"), value |-> None])
                 ELSE Some([call |-> "search_products", request |-> request, body |-> Some(body),
                            exc |-> None,
                            value |-> Some([total |-> response[1], page |-> page, size |-> size,
                                            total_pages |->
                                                IF response[1] > 0
                                                THEN (IF response[1] % size = 0
                                                      THEN response[1] \div size
                                                      ELSE response[1] \div size + 1)
                                                ELSE 0])])
    /\ api_calls' = api_calls + 1
    /\ UNCHANGED << index_exists, create_calls, bulk_requests, parser_vars, main_vars, db_vars, dag >>

NextSearch ==
    \/ CreateIndexIfNotExists
    \/ BulkIndexProducts
    \/ SearchProducts

SpecSearch == InitSearch /\ [][NextSearch]_vars

(***************************************************************************)
(* The DAG clv_drift_monitoring (dags/drift_monitoring_dag.py), run by the *)
(* Airflow scheduler: a task runs when all its upstream tasks succeeded    *)
(* (trigger rule all_success, the default), and is skipped or marked       *)
(* upstream_failed when one of them was skipped or failed.  A task that    *)
(* fails has used up its retry.                                             *)
(***************************************************************************)
\* the tasks and their upstream tasks, by task_id (lines 174-176)
Upstream ==
    [ check_new_data |-> {},
      detect_drift |-> {"check_new_data"},
      check_retraining_needed |-> {"detect_drift"},
      no_retraining_needed |-> {"check_retraining_needed"},
      log_retraining_trigger |-> {"check_retraining_needed"},
      trigger_retraining |-> {"log_retraining_trigger"} ]

\* check_retraining_needed (lines 88-102): the task_id the branch returns
check_retraining_needed(drift_results) ==
    IF drift_results.retraining_required THEN "trigger_retraining" ELSE "no_retraining_needed"

\* the DAG is deployed and has not run
InitDag == ParserIdle /\ MainOff /\ NewDatabaseOperations /\ NewStore /\ dag = None

\* the scheduler creates the next daily run once the tasks of the last one
\* are finished: new task instances, no XCom value
StartDagRun ==
    /\ dag # None => /\ dag[1].run < MaxDagRuns
                     /\ \A t \in DOMAIN Upstream : dag[1].state[t] # "none"
    /\ dag' = Some([ run |-> IF dag = None THEN 1 ELSE dag[1].run + 1,
                     state |-> [t \in DOMAIN Upstream |-> "none"],
                     current_data_file |-> None,
                     drift_results |-> None,
                     executed |-> <<>>,
                     triggered |-> IF dag = None THEN 0 ELSE dag[1].triggered ])
    /\ UNCHANGED << parser_vars, main_vars, db_vars, search_vars >>

\* a task whose upstream tasks all succeeded is executed.
\* check_new_data (lines 25-47) pushes the newest CSV file, if there is one;
\* detect_drift (lines 50-85) takes it, or looks for one itself and raises
\* when there is none, and pushes the results of run_drift_detection, which
\* may raise; the BranchPythonOperator (lines 149-153) follows the task_id
\* returned and what is downstream of it, and skips its other direct
\* downstream tasks; trigger_retraining (lines 167-171) triggers a run of
\* clv_model_training
RunTask ==
    /\ dag # None
    /\ \E task \in DOMAIN Upstream :
         /\ dag[1].state[task] = "none"
         /\ \A u \in Upstream[task] : dag[1].state[u] = "success"
         /\ LET ran == [dag[1] EXCEPT !.state[task] = "success", !.executed = Append(@, task)]
                failed == [dag[1] EXCEPT !.state[task] = "failed", !.executed = Append(@, task)]
                down(ts) == {t \in DOMAIN Upstream : Upstream[t] \cap ts # {}}
                below(t) == down({t}) \cup down(down({t})) \cup down(down(down({t})))
            IN  CASE task = "check_new_data" ->
                       \E csv_files \in BOOLEAN :
                           dag' = Some([ran EXCEPT !.current_data_file =
                                           IF csv_files THEN Some("current.csv") ELSE None])
                  [] task = "detect_drift" ->
                       \E csv_files \in BOOLEAN, detects \in BOOLEAN,
                          data_drift \in BOOLEAN, model_drift \in BOOLEAN :
                           dag' = IF (dag[1].current_data_file = None /\ ~csv_files) \/ ~detects
                                  THEN Some(failed)
                                  ELSE Some([ran EXCEPT !.drift_results =
                                           Some([data_drift |-> data_drift,
                                                 model_drift |-> model_drift,
                                                 retraining_required |-> data_drift \/ model_drift])])
                  [] task = "check_retraining_needed" ->
                       LET branch == check_retraining_needed(dag[1].drift_results[1])
                           follow == {branch} \cup below(branch)
                       IN  dag' = Some([ran EXCEPT !.state =
                                          [t \in DOMAIN Upstream |->
                                              IF t \in down({task}) \ follow THEN "skipped"
                                              ELSE @[t]]])
                  [] task = "trigger_retraining" ->
                       dag' = Some([ran EXCEPT !.triggered = @ + 1])
                  [] OTHER -> dag' = Some(ran)
    /\ UNCHANGED << parser_vars, main_vars, db_vars, search_vars >>

\* the scheduler finishes a task that cannot run: upstream_failed when an
\* upstream task failed, skipped when one was skipped
SkipTask ==
    /\ dag # None
    /\ \E task \in DOMAIN Upstream :
         /\ dag[1].state[task] = "none"
         /\ \A u \in Upstream[task] : dag[1].state[u] # "none"
         /\ \E u \in Upstream[task] : dag[1].state[u] # "success"
         /\ dag' = Some([dag[1] EXCEPT !.state[task] =
                       IF \E u \in Upstream[task] : dag[1].state[u] \in {"failed", "upstream_failed"}
                       THEN "upstream_failed" ELSE "skipped"])
    /\ UNCHANGED << parser_vars, main_vars, db_vars, search_vars >>

SpecDag == InitDag /\ [][StartDagRun \/ RunTask \/ SkipTask]_vars

(***************************************************************************)
(* Properties.  Record i of table_data_list was appended for row           *)
(* trace[i].row of table trace[i].table, whose cells after merge, padding  *)
(* and truncation (and before any write-back) are trace[i].cells.          *)
(***************************************************************************)
Recs == 1..Len(table_data_list)

RecsOf(k) == {i \in Recs : trace[i].table = k}

\* table k has been processed to its end
TableDone(k) == k < table_idx \/ (k = table_idx /\ pc \in {"tables", "returned"})

\* the rows of table k that remain after the header drop and the header dedup
RowsAfterHeader(k) ==
    LET n == IF tables[k].export = "fails" THEN Len(tables[k].data) ELSE Len(DfRows(tables[k]))
    IN  IF k = 1 /\ n > 0 THEN n - 1 ELSE n

\* the value record i carries for position p (2 name .. 7 date), None when empty or absent
EmittedAt(i, p) ==
    CASE p = 2 -> IF table_data_list[i].document_name = "" THEN None
                  ELSE Some(table_data_list[i].document_name)
      [] p = 3 -> table_data_list[i].table_number
      [] p = 4 -> table_data_list[i].row_number
      [] p = 5 -> table_data_list[i].column_number
      [] p = 6 -> IF table_data_list[i].cell_content = "" THEN None
                  ELSE Some(table_data_list[i].cell_content)
      [] p = 7 -> table_data_list[i].extracted_date

\* rows j < i of one table with no non-empty cell at p after row j up to row i
EmptyRun(j, i, p) ==
    /\ j < i
    /\ trace[j].table = trace[i].table
    /\ \A m \in (j + 1)..i : trace[m].cells[p] = ""

\* C1: every table, on either extraction path, gets exactly one record per
\* row that remains after the header drop / header dedup.
C1_OneRecordPerRow ==
    \A k \in 1..Len(tables) : TableDone(k) => Cardinality(RecsOf(k)) = RowsAfterHeader(k)

\* C2: a row with an empty cell at position p (name, table/row/column number,
\* content) is emitted with the value of the nearest earlier row of the table
\* that had a non-empty resolved value at p.
C2_ForwardFill ==
    \A i \in Recs, j \in Recs, p \in 2..6 :
        (EmptyRun(j, i, p) /\ EmittedAt(j, p) # None) => EmittedAt(i, p) = EmittedAt(j, p)

\* the string consists of digits only
IsDigitString(s) == Len(s) > 0 /\ DigitsAt(s, 1, Len(s))

\* C3: once a row of a table has been emitted with a valid document name, no
\* later record of that table has an all-digit document_name, and a row whose
\* name cell is all digits is emitted with the name of the record before it.
C3_NoNumericNameAfterValid ==
    \A i \in Recs, j \in Recs :
        (j < i /\ trace[j].table = trace[i].table
            /\ _is_valid_document_name(table_data_list[j].document_name))
        => /\ ~IsDigitString(table_data_list[i].document_name)
           /\ _is_valid_document_name(table_data_list[i].document_name)
           /\ (j = i - 1 /\ IsDigitString(trace[i].cells[2]))
                => table_data_list[i].document_name = table_data_list[j].document_name

\* C3 witness: a row with the all-digit name "42" emitted as "doc.pdf", the
\* valid name of the row before it.
C3_Witness ==
    \E i \in Recs : i > 1 /\ trace[i - 1].table = trace[i].table
        /\ trace[i].cells[2] = "42"
        /\ table_data_list[i - 1].document_name = "doc.pdf"
        /\ table_data_list[i].document_name = "doc.pdf"

\* C4: a row whose name is invalid while the table has carried no valid name
\* is emitted with the document-level fallback name.
C4_FallbackName ==
    \A i \in Recs :
        (/\ ~_is_valid_document_name(trace[i].cells[2])
         /\ \A j \in Recs : (j < i /\ trace[j].table = trace[i].table)
                                => ~_is_valid_document_name(trace[j].cells[2]))
        => table_data_list[i].document_name = document_name[1]

\* C5: a row with a bare date followed by a row with a time-only cell: the
\* second row's date is the first row's date with the second row's time.
C5_DateThenTime ==
    \A i \in Recs :
        (/\ i > 1
         /\ trace[i - 1].table = trace[i].table
         /\ _is_date_like_without_time(Some(trace[i - 1].cells[7]))
         /\ _parse_pdf_date(Some(trace[i - 1].cells[7])) # None
         /\ _is_time_only(Some(trace[i].cells[7])))
        => table_data_list[i].extracted_date =
              _normalize_and_combine_date_field(Some(trace[i].cells[7]), Some(trace[i - 1].cells[7]))

\* the string has the form MM-DD-YYYY HH:MM
IsDateTimeForm(s) ==
    /\ Len(s) = 16
    /\ DigitsAt(s, 1, 2) /\ Ch(s, 3) = "-" /\ DigitsAt(s, 4, 2) /\ Ch(s, 6) = "-"
    /\ DigitsAt(s, 7, 4) /\ Ch(s, 11) = " "
    /\ DigitsAt(s, 12, 2) /\ Ch(s, 14) = ":" /\ DigitsAt(s, 15, 2)

\* C6: every emitted extracted_date is absent or of the form MM-DD-YYYY HH:MM.
C6_DateForm ==
    \A i \in Recs :
        table_data_list[i].extracted_date # None => IsDateTimeForm(table_data_list[i].extracted_date[1])

\* C7: after a row with a resolved date, the rows that follow with an empty
\* date cell are emitted with the same date.
C7_DateStable ==
    \A i \in Recs, j \in Recs :
        (EmptyRun(j, i, 7) /\ EmittedAt(j, 7) # None) => EmittedAt(i, 7) = EmittedAt(j, 7)

\* the first tables whose rows are a header row and FullRow
HeaderThenFullRow ==
    {MakeTable("labelled", <<FullRow>>)}
        \cup {MakeTable(e, <<HeaderCells, FullRow>>) : e \in Exports \ {"labelled"}}

\* C8: the first row of the first table gives no record and leaves the carry
\* state untouched; the first row of every later table gives a record; the
\* first table [header, FullRow] gives exactly the record of FullRow.
C8_HeaderOnlyInFirstTable ==
    /\ \A i \in Recs : ~(trace[i].table = 1 /\ trace[i].row = 1)
    /\ (table_idx = 1 /\ row_idx = 1 /\ pc # "raised")
          => (last_seen = NoneSeen /\ prev_seventh = None /\ table_data_list = <<>>)
    /\ \A k \in 2..Len(tables) :
          (TableDone(k) /\ RowsAfterHeader(k) > 0)
              => \E i \in RecsOf(k) : trace[i].row = 1
    /\ (/\ Len(tables) >= 1
        /\ TableDone(1)
        /\ tables[1] \in HeaderThenFullRow)
          => [i \in 1..Cardinality(RecsOf(1)) |-> table_data_list[i]] =
                << TableData("doc.pdf", Some(1), Some(1), Some(1), "Hello", Some("10-01-2026 09:00")) >>

FreshRecord(cells, next, doc_date) ==
    TableData(cells[2], _to_int_safe(cells[3]), _to_int_safe(cells[4]), _to_int_safe(cells[5]),
              _strip_trailing_date(cells[6]), ResolveDate(cells[7], None, next, doc_date).date)

\* C10: every table starts with a fresh carry state, so the first record of a
\* table is that of its row alone: nothing is filled in from another table.
C10_CarryResetPerTable ==
    /\ (pc \in {"rows", "fallback"} /\ row_idx = 0) => (last_seen = NoneSeen /\ prev_seventh = None)
    /\ \A i \in Recs :
          (i = 1 \/ trace[i - 1].table # trace[i].table)
          => LET rows == DfRows(tables[trace[i].table])
                 next == IF trace[i].row < Len(rows) THEN Some(rows[trace[i].row + 1]) ELSE None
             IN  table_data_list[i] = FreshRecord(trace[i].cells, next, extracted_date)

\* C10 witness: the second table starts with a row of empty cells after the
\* first table carried a name and a date; its record has neither.
C10_Witness ==
    \E i \in Recs :
        /\ i > 1 /\ trace[i].table = 2 /\ trace[i - 1].table = 1
        /\ table_data_list[i - 1].document_name = "doc.pdf"
        /\ table_data_list[i - 1].extracted_date = Some("10-01-2026 09:00")
        /\ trace[i].cells = TimeRow
        /\ table_data_list[i].document_name = ""
        /\ table_data_list[i].extracted_date \in {Some("14:30"), Some("01-01-2026 14:30")}

(***************************************************************************)
(* Content and date cells (C11, C12), on the documents of CellDocuments.   *)
(***************************************************************************)
\* d is digits-separator-digits-separator-digits: D-M-Y with '-' or '/' (1-2,
\* 1-2 and 2-4 digits) or YYYY-MM-DD
IsDateText(d) ==
    \E p1 \in 1..Len(d), p2 \in 1..Len(d) :
        /\ p1 < p2
        /\ \A k \in (1..Len(d)) \ {p1, p2} : Ch(d, k) \in Digits
        /\ \/ /\ Ch(d, p1) \in {"-", "/"} /\ Ch(d, p2) \in {"-", "/"}
              /\ p1 - 1 \in 1..2 /\ p2 - p1 - 1 \in 1..2 /\ Len(d) - p2 \in 2..4
           \/ /\ Ch(d, p1) = "-" /\ Ch(d, p2) = "-"
              /\ p1 - 1 = 4 /\ p2 - p1 - 1 = 2 /\ Len(d) - p2 = 2

\* the cell without a date that ends it after a blank, and without the blanks
\* before that date; the cell itself when it does not end that way
WithoutTrailingDate(c) ==
    LET blanks == {i \in 1..Len(c) : IsSpace(Ch(c, i))}
    IN  IF blanks # {} /\ IsDateText(SubSeq(c, Max(blanks) + 1, Len(c)))
        THEN RStrip(SubSeq(c, 1, Max(blanks)))
        ELSE c

\* cell p of the row of record i after forward-fill: the row's own cell, or
\* the last non-empty cell p of an earlier row of the same table
FilledCell(i, p) ==
    LET earlier == {j \in RecsOf(trace[i].table) : j < i /\ trace[j].cells[p] # ""}
    IN  IF trace[i].cells[p] # "" THEN trace[i].cells[p]
        ELSE IF earlier = {} THEN "" ELSE trace[Max(earlier)].cells[p]

\* C11: the emitted cell_content of every processed row is its content cell
\* (position 6, after forward-fill) without a trailing date and the blanks
\* before it, and the cell unchanged when it has no such suffix; the row
\* ["","5","1","2","3","Total 10-01-2026",""] processed without carry state
\* yields cell_content "Total" and no extracted_date, whatever the document
\* date fallback.
C11_TrailingDateStripped ==
    \A i \in Recs :
        /\ table_data_list[i].cell_content = WithoutTrailingDate(FilledCell(i, 6))
        /\ (trace[i].cells = CellRow("Total 10-01-2026", "") /\ FilledCell(i, 7) = "")
              => /\ table_data_list[i].cell_content = "Total"
                 /\ table_data_list[i].extracted_date = None

\* C11 witness: with the document date fallback of "2026-01-01", the row of
\* the claim was emitted as "Total" without a date, and the row after it took
\* its content by forward-fill and was emitted as "Total" too.
C11_Witness ==
    /\ pc = "returned"
    /\ meta.date = "2026-01-01" /\ extracted_date = Some("01-01-2026 00:00")
    /\ Len(table_data_list) = 2
    /\ trace[1].cells = CellRow("Total 10-01-2026", "")
    /\ table_data_list[1].cell_content = "Total"
    /\ table_data_list[1].extracted_date = None
    /\ trace[2].cells[6] = ""
    /\ table_data_list[2].cell_content = "Total"

\* the date portions that parsing yields from what record i can draw on: its
\* own date cell after forward-fill, the date emitted for the row before it
\* in the table, and the date field of the document's metadata
ParsedPortions(i) ==
    LET before == IF i - 1 \in RecsOf(trace[i].table)
                  THEN table_data_list[i - 1].extracted_date ELSE None
        parsed == {_parse_pdf_date(Some(FilledCell(i, 7))), _parse_pdf_date(before),
                   _parse_pdf_date(Some(meta.date))}
    IN  {FirstWord(d[1]) : d \in parsed \ {None}}

\* C12: date resolution never guesses.  A date cell (after forward-fill) that
\* is empty, or neither time-only nor parseable as a date, gives an absent
\* extracted_date; and the date portion of every emitted extracted_date is
\* one that parsing yields from the row's sources, never one made up from a
\* year alone such as "01-01-YYYY".
C12_NeverGuessesDate ==
    \A i \in Recs :
        /\ (\/ FilledCell(i, 7) = ""
            \/ /\ ~_is_time_only(Some(FilledCell(i, 7)))
               /\ _parse_pdf_date(Some(FilledCell(i, 7))) = None)
              => table_data_list[i].extracted_date = None
        /\ (table_data_list[i].extracted_date # None
             /\ Contains(table_data_list[i].extracted_date[1], "-"))
              => FirstWord(table_data_list[i].extracted_date[1]) \in ParsedPortions(i)

(***************************************************************************)
(* Failures (C13 ..).                                                      *)
(***************************************************************************)
\* C13: a table whose export_to_dataframe raises contributes no records, the
\* failure stays inside parse_tables (the call of a converted document does
\* not raise), and every other table is processed: the call returns one
\* record for each of its rows after the header.
C13_TableFailureContained ==
    /\ (converts => pc # "raised")
    /\ pc = "returned" =>
          \A k \in 1..Len(tables) :
              IF tables[k].export = "fails" THEN RecsOf(k) = {}
              ELSE Cardinality(RecsOf(k)) = RowsAfterHeader(k)

\* the step is a call of insert_table_data on the object
InsertCall == db_calls' = db_calls + 1 /\ db_result'[1].call = "insert_table_data"

\* C17: insert_table_data is all-or-nothing.  A call with an element that is
\* no TableData fails; a call that fails raises to its caller the exception
\* its handler caught and leaves parsed_table_data as it was; a call that
\* succeeds has added one row per element; and every call leaves conn and
\* cursor None.
C17_InsertAllOrNothing ==
    [][InsertCall =>
         /\ conn' = None /\ cursor' = None
         /\ (\E i \in 1..Len(db_result'[1].arg) : ~IsTableData(db_result'[1].arg[i]))
               => db_result'[1].exc # None
         /\ IF db_result'[1].exc # None
            THEN /\ db_result'[1].exc = db_result'[1].printed
                 /\ parsed_table_data' = parsed_table_data
            ELSE /\ Len(parsed_table_data') = Len(parsed_table_data) + Len(db_result'[1].arg)
                 /\ SubSeq(parsed_table_data', 1, Len(parsed_table_data)) = parsed_table_data
      ]_vars

\* the connections that are open and that the object does not hold
Unreferenced == open_conns \ (IF conn # None THEN {conn[1]} ELSE {})

\* C18: after a successful connect conn and cursor are both set, after
\* disconnect both are None (also on an object that was not connected), and
\* after any sequence of calls conn is None exactly when cursor is None and
\* no open connection is left unreferenced.
C18_ConnectionPaired ==
    /\ (db_result # None /\ db_result[1].call = "connect" /\ db_result[1].exc = None)
          => (conn # None /\ cursor # None)
    /\ (db_result # None /\ db_result[1].call = "disconnect")
          => (conn = None /\ cursor = None /\ db_result[1].exc = None)
    /\ (conn = None) <=> (cursor = None)
    /\ Unreferenced = {}

(***************************************************************************)
(* main.py (C14 ..).                                                       *)
(***************************************************************************)
\* main is handling a file that does not convert
HandlingUnconvertible == main_pc = "parsing" /\ ~converts

\* C14: when the conversion of the document fails, parse_tables raises to
\* its caller and returns no records (the call never reaches its return and
\* its list stays empty), and main inserts no record of that document: no
\* call is made on the database object and parsed_table_data stays as it
\* was while the file is handled, which ends in the handler of main.
C14_ConversionFailurePropagates ==
    /\ [](HandlingUnconvertible => (pc \in {"convert", "raised"} /\ table_data_list = <<>>))
    /\ [][HandlingUnconvertible =>
            /\ parsed_table_data' = parsed_table_data
            /\ db_calls' = db_calls
            /\ main_pc' # "parsing" =>
                  (pc = "raised" /\ main_pc' = "done" /\ report' = Append(report, Line("error")))
         ]_vars

\* the conversion of a file failed and raised after an earlier file of the
\* directory was stored
C14_Witness ==
    /\ HandlingUnconvertible
    /\ pc = "raised"
    /\ parsed_table_data # <<>>

\* the lines main printed in the run it is in
LinesOfRun == {k \in 1..Len(report) : report[k].run = main_run}

\* C15: when main is through, every PDF file of the directory has its own
\* reported outcome: there is one line per PDF file, also after a failure
\* while parsing or storing one of them.
C15_EveryPdfReported ==
    main_pc = "done" =>
        Cardinality(LinesOfRun) = Cardinality({k \in 1..Len(files) : IsPdf(files[k].name)})

\* C16: a file reported as processed is recorded in processed_files, and no
\* later run reports it as processed again.
C16_NoReingestion ==
    \A j \in 1..Len(report) :
        report[j].outcome = "processed" =>
            /\ processed_files # None
            /\ report[j].file \in processed_files[1]
            /\ \A k \in 1..Len(report) :
                   (report[k].run > report[j].run /\ report[k].file = report[j].file)
                      => report[k].outcome # "processed"

(***************************************************************************)
(* The product search service (C19 ..).                                    *)
(***************************************************************************)
\* the step is a call of create_index_if_not_exists
CreateIndexCall ==
    api_calls' = api_calls + 1 /\ api_result'[1].call = "create_index_if_not_exists"

\* what each call of create_index_if_not_exists does: on an index that exists
\* it returns False or raises, and does not call indices.create; when it
\* returns True the index did not exist, indices.create was called once and
\* succeeded and the index exists; no call makes more than one call of
\* indices.create, and one that raises leaves the store as it was
CreateIndexStep ==
    /\ index_exists =>
          (api_result'[1].value # Some(TRUE) /\ create_calls' = create_calls /\ index_exists')
    /\ api_result'[1].value = Some(TRUE) =>
          (~index_exists /\ index_exists' /\ create_calls' = Append(create_calls, TRUE))
    /\ api_result'[1].value = Some(FALSE) => index_exists
    /\ api_result'[1].exc # None =>
          /\ index_exists' = index_exists
          /\ create_calls' \in {create_calls, Append(create_calls, FALSE)}
    /\ (api_result'[1].exc = None) <=> (api_result'[1].value # None)

BulkCall == api_calls' = api_calls + 1 /\ api_result'[1].call = "bulk_index_products"

\* C20: a call of bulk_index_products that returns has success true exactly
\* when failed is 0, and indexed and failed are the counts the bulk helper
\* reported for the one request of the call, which has one action per
\* product, in order, with the id of the product as _id; a call with no
\* products returns success true, indexed 0, failed 0 and issues no request.
C20_BulkResult ==
    [][(BulkCall /\ api_result'[1].exc = None) =>
         LET r == api_result'[1]
         IN  IF r.products = <<>>
             THEN /\ r.value = Some([success |-> TRUE, indexed |-> 0, failed |-> 0])
                  /\ bulk_requests' = bulk_requests
             ELSE /\ r.value[1].success <=> (r.value[1].failed = 0)
                  /\ r.reported = Some(<<r.value[1].indexed, r.value[1].failed>>)
                  /\ Len(bulk_requests') = Len(bulk_requests) + 1
                  /\ SubSeq(bulk_requests', 1, Len(bulk_requests)) = bulk_requests
                  /\ Len(bulk_requests'[Len(bulk_requests')]) = Len(r.products)
                  /\ \A i \in 1..Len(r.products) :
                         bulk_requests'[Len(bulk_requests')][i]._id = r.products[i].id
      ]_vars

\* the third call made returned for two products with one of them failed,
\* and its request is the only one so far
C20_Witness ==
    /\ api_result # None
    /\ api_result[1].call = "bulk_index_products"
    /\ api_result[1].value # None
    /\ api_result[1].value[1].failed = 1
    /\ Len(api_result[1].products) = 2
    /\ Len(bulk_requests) = 1
    /\ api_calls = 3

(***************************************************************************)
(* TableData (C21).                                                        *)
(***************************************************************************)
\* C21: the first record of every list handed to insert_table_data is created
\* from five values, without extracted_date (conftest.py lines 46-52): its
\* extracted_date is a datetime value, not absent, and a second TableData
\* built from the same values is equal to it.
C21_DefaultDateIsDatetime ==
    (db_result # None /\ db_result[1].call = "insert_table_data" /\ db_result[1].arg # <<>>)
        => /\ db_result[1].arg[1].extracted_date # None
           /\ db_result[1].arg[1]
                = TableData("test.pdf", Some(1), Some(1), Some(1), "Test Content", None)

(***************************************************************************)
(* Date reconciliation across rows (C22, C23).                             *)
(***************************************************************************)
\* the date emitted for the row before record i in its table, None for the
\* first record of a table
PrevDate(i) ==
    IF i - 1 \in RecsOf(trace[i].table) THEN table_data_list[i - 1].extracted_date ELSE None

\* the date cell of the row after the row of record i, as the table has it
NextCell(i) ==
    LET rows == DfRows(tables[trace[i].table])
    IN  IF trace[i].row < Len(rows) /\ Len(rows[trace[i].row + 1]) >= 7
        THEN Some(rows[trace[i].row + 1][7]) ELSE None

\* the time of a time-only cell: as written (hours and minutes) or as HH:MM
\* on the 24-hour clock
TimesOf(cell) == {TimeSearch(cell), FirstTimeFormat(Strip(cell), 1)} \ {None}

\* the date portion of date with the time of cell
WithTime(date, cell) == {Some(FirstWord(date[1]) \o " " \o t[1]) : t \in TimesOf(cell)}

\* case (a) applies to record i: its date cell is time-only and the date
\* emitted for the row before parses
CaseA(i) == _is_time_only(Some(FilledCell(i, 7))) /\ _parse_pdf_date(PrevDate(i)) # None

\* case (b) applies to record i: (a) does not, its date cell is a bare date
\* that parses and the date cell of the next row is time-only
CaseB(i) ==
    /\ ~CaseA(i)
    /\ _is_date_like_without_time(Some(FilledCell(i, 7)))
    /\ _parse_pdf_date(Some(FilledCell(i, 7))) # None
    /\ _is_time_only(NextCell(i))

\* C22: the date of every record follows the three cases in this order:
\* (a) a time-only cell after a row whose emitted date parses gets that date
\* with its own time; (b) else a bare date before a time-only cell gets its
\* date with the time of the next row; (c) else a cell that is not time-only
\* is parsed as a date, and a time-only cell gets the date portion of the
\* document-level date with its time as HH:MM, or HH:MM alone when there is
\* no document-level date.
C22_DatePriority ==
    \A i \in Recs :
        LET own == FilledCell(i, 7)
            got == table_data_list[i].extracted_date
            time == FirstTimeFormat(Strip(own), 1)
        IN  IF CaseA(i) THEN got \in WithTime(_parse_pdf_date(PrevDate(i)), own)
            ELSE IF CaseB(i) THEN got \in WithTime(_parse_pdf_date(Some(own)), NextCell(i)[1])
            ELSE IF ~_is_time_only(Some(own)) THEN got = _parse_pdf_date(Some(own))
            ELSE IF time = None THEN got = None
            ELSE IF extracted_date # None
                 THEN got = Some(FirstWord(extracted_date[1]) \o " " \o time[1])
            ELSE got = time

\* the records of the rows of the table being processed to which case (b)
\* applied with row q as the next row
MergedInto(q) == {i \in RecsOf(table_idx) : trace[i].row = q - 1 /\ CaseB(i)}

\* C23: when case (b) merges a bare date with the time of the next row, the
\* combined value is written into the date cell of that next row and into
\* no other cell of a row, as materialised, of the table, and the two rows
\* are emitted with the same extracted_date.
C23_WriteBack ==
    /\ \A i \in Recs :
          (CaseB(i) /\ i + 1 \in RecsOf(trace[i].table))
              => table_data_list[i + 1].extracted_date = table_data_list[i].extracted_date
    /\ (pc = "rows" /\ Len(df_rows) = Len(src_rows)) =>
          \A q \in 1..Len(df_rows) :
              /\ \A c \in 1..Len(src_rows[q]) :
                    (c # 7 \/ MergedInto(q) = {}) => df_rows[q][c] = src_rows[q][c]
              /\ \A i \in MergedInto(q) : Some(df_rows[q][7]) = table_data_list[i].extracted_date


\* the 7 cells the shape step is to leave of a raw row, the 7th as a set: the
\* time of a merge is the time found in the 8th cell, or that cell itself
ShapedCells(raw, p) ==
    IF p = 7 /\ Len(raw) >= 8 /\ _is_date_like_without_time(Some(raw[7])) /\ _is_time_only(Some(raw[8]))
    THEN {raw[7] \o " " \o t : t \in {raw[8]} \cup {m[1] : m \in {TimeSearch(raw[8])} \ {None}}}
    ELSE IF p <= Len(raw) THEN {raw[p]} ELSE {""}

\* cells is the shape of raw, its empty cells filled from seen
ShapedAndFilled(raw, seen, cells) ==
    /\ Len(cells) = 7
    /\ \A p \in 1..7 :
          \/ cells[p] \in ShapedCells(raw, p) \ {""}
          \/ "" \in ShapedCells(raw, p) /\ cells[p] = (IF seen[p] = None THEN "" ELSE seen[p][1])

\* raw is entirely empty once padded to 7 cells
EmptyPadded(raw) == \A p \in 1..7 : ShapedCells(raw, p) = {""}

\* record rec has no value but what seen carries
OnlyCarried(rec, seen) ==
    /\ rec.document_name = (IF seen[2] = None THEN "" ELSE seen[2][1])
    /\ rec.table_number = (IF seen[3] = None THEN None ELSE _to_int_safe(seen[3][1]))
    /\ rec.row_number = (IF seen[4] = None THEN None ELSE _to_int_safe(seen[4][1]))
    /\ rec.column_number = (IF seen[5] = None THEN None ELSE _to_int_safe(seen[5][1]))
    /\ rec.cell_content = (IF seen[6] = None THEN "" ELSE _strip_trailing_date(seen[6][1]))
    /\ seen[7] = None => rec.extracted_date = None

\* the raw row a pass of either row loop is about to process, None when the
\* pass is over the skipped header or the state is not in a row loop
RawRowAhead ==
    IF table_idx = 1 /\ row_idx = 0 THEN None
    ELSE IF pc = "rows" /\ row_idx < Len(df_rows) THEN Some(df_rows[row_idx + 1])
    ELSE IF pc = "fallback" /\ row_idx < Len(tables[table_idx].data)
    THEN Some([c \in 1..Len(tables[table_idx].data[row_idx + 1])
                  |-> Strip(tables[table_idx].data[row_idx + 1][c])])
    ELSE None

\* one pass of a row loop leaves 7 cells, and a record for an empty row
ShapeStep ==
    (RawRowAhead # None /\ row_idx' = row_idx + 1) =>
        /\ row_values' # None
        /\ ShapedAndFilled(RawRowAhead[1], last_seen, row_values'[1])
        /\ EmptyPadded(RawRowAhead[1]) =>
              /\ table_data_list' # table_data_list
              /\ table_data_list' = Append(table_data_list, table_data_list'[Len(table_data_list')])
              /\ OnlyCarried(table_data_list'[Len(table_data_list')], last_seen)

\* C24: every processed row, of any raw length, has exactly 7 cells after
\* shape normalisation: an 8th time-only cell is merged into a bare date in
\* the 7th as "<date> <time>", the cells beyond the 7th are dropped, the
\* missing ones are empty strings; and a row that is entirely empty after
\* padding yields one record, with no value but those carried in last_seen.
C24_SevenCells == [][ShapeStep]_vars


\* the value a pass of a row loop resolves for position p (2 name .. 7 date)
\* from the forward-filled cells it leaves in row_values, None when empty;
\* the date is the one of the record the pass appends, if it appends one
ResolvedAt(p) ==
    LET cells == row_values'[1]
        opt(s) == IF s = "" THEN None ELSE Some(s)
    IN  CASE p = 2 -> opt(ResolveName(cells, last_seen))
          [] p \in 3..5 -> _to_int_safe(cells[p])
          [] p = 6 -> opt(_strip_trailing_date(cells[6]))
          [] p = 7 -> IF Len(table_data_list') > Len(table_data_list)
                      THEN table_data_list'[Len(table_data_list')].extracted_date ELSE None

\* seen holds the value v at position p, a number held as its text or as itself
HoldsAt(seen, p, v) ==
    /\ seen[p] # None
    /\ IF p \in 3..5 THEN _to_int_safe(seen[p][1]) = Some(v) ELSE seen[p][1] = v

\* a pass over a processed row leaves its resolved values in last_seen, a
\* pass over the dropped header leaves last_seen as it is
CarryStep ==
    /\ (RawRowAhead # None /\ row_idx' = row_idx + 1) =>
          \A p \in 2..7 :
              ResolvedAt(p) # None =>
                  IF p = 2 /\ ~_is_valid_document_name(ResolvedAt(p)[1])
                  THEN last_seen'[2] = last_seen[2]
                  ELSE HoldsAt(last_seen', p, ResolvedAt(p)[1])
    /\ (pc \in {"rows", "fallback"} /\ table_idx = 1 /\ row_idx = 0 /\ row_idx' = 1)
          => last_seen' = last_seen

\* last_seen has no document name, or a valid one
CarriedNameValid == last_seen[2] = None \/ _is_valid_document_name(last_seen[2][1])

\* C25: after each processed row last_seen holds, at every position where the
\* row's resolved value is non-empty, that resolved value, the document name
\* only when it is a valid name; so the name in last_seen is always unset or
\* valid, and the dropped header row never changes last_seen.
C25_CarryUpdate == [][CarryStep]_vars /\ []CarriedNameValid


\* cell has a header keyword somewhere in it, whatever the case of its letters
HasKeyword(cell) ==
    \E kw \in HeaderKeywords, a \in 1..Len(cell) :
        a + Len(kw) - 1 <= Len(cell) /\ Lower(SubSeq(cell, a, a + Len(kw) - 1)) = kw

\* the first body row repeats the label row: it is equal to it, or agrees
\* with it over a common prefix of 2 cells or more, or has a keyword in one
\* of its first two cells
RepeatsLabels(labels, first) ==
    \/ first = labels
    \/ \E n \in {Len(first), Len(labels)} :
          n >= 2 /\ n <= Len(first) /\ n <= Len(labels) /\ SubSeq(first, 1, n) = SubSeq(labels, 1, n)
    \/ \E c \in {1, 2} : c <= Len(first) /\ HasKeyword(first[c])

\* the table being processed has labelled columns and its rows are materialised
LabelledAtHand ==
    /\ pc \in {"rows", "tables", "returned"}
    /\ table_idx >= 1
    /\ tables[table_idx].export = "labelled"

AsPositional(k) == DfRows([tables[k] EXCEPT !.export = "range"])

\* the first row of table k that is not the dropped header
FirstDataRow(k) == IF k = 1 THEN 2 ELSE 1

\* C27: the fallback path over table.data appends, for the same table index,
\* raw rows and document date, the records the dataframe path appends for
\* these rows under a positional column index: it raises on no table, it
\* appends as many records, and the record of the first row has the same
\* field values.
C27_FallbackAsDataframe ==
    \A k \in 1..Len(tables) :
        tables[k].export = "fails" =>
            /\ ~(pc = "raised" /\ table_idx = k)
            /\ TableDone(k) =>
                  LET rows == AsPositional(k)
                      r == FirstDataRow(k)
                      next == IF r < Len(rows) THEN Some(rows[r + 1]) ELSE None
                  IN  /\ Cardinality(RecsOf(k)) = Len(rows) - (r - 1)
                      /\ r <= Len(rows) =>
                            \E i \in RecsOf(k) :
                                /\ trace[i].row = r
                                /\ table_data_list[i] = FreshRecord(ShapeRow(rows[r]), next, extracted_date)


\* the rows a successful call of insert_table_data has added, in list order
AddedRows ==
    [i \in 1..(Len(parsed_table_data') - Len(parsed_table_data))
        |-> parsed_table_data'[Len(parsed_table_data) + i]]

\* a successful call writes record i of its list with id i, after the rows
\* that were there, which it leaves as they were
InsertStep ==
    (InsertCall /\ db_result'[1].exc = None) =>
        /\ Len(parsed_table_data') = Len(parsed_table_data) + Len(db_result'[1].arg)
        /\ SubSeq(parsed_table_data', 1, Len(parsed_table_data)) = parsed_table_data
        /\ \A i \in 1..Len(db_result'[1].arg) :
              /\ AddedRows[i].id = i
              /\ AddedRows[i].document_name = db_result'[1].arg[i].document_name
              /\ AddedRows[i].row_number = db_result'[1].arg[i].row_number
              /\ AddedRows[i].column_number = db_result'[1].arg[i].column_number

SearchCall == api_result # None /\ api_result[1].call = "search_products"

\* C30: a call of search_products with page >= 1 and size >= 1 sends its
\* query with from = (page - 1) * size and the size asked for, and what it
\* returns has the page and size of the request and total_pages = 0 for no
\* hit, else the number n of pages with (n - 1) * size < total <= n * size,
\* which is ceil(total / size); it returns whenever the sort option splits
\* and client.search answers.
C30_Pagination ==
    (SearchCall /\ api_result[1].request.page >= 1 /\ api_result[1].request.size >= 1) =>
        LET request == api_result[1].request
            body == api_result[1].body
            value == api_result[1].value
        IN  /\ body # None =>
                  body[1].from = (request.page - 1) * request.size /\ body[1].size = request.size
            /\ value # None =>
                  /\ body # None
                  /\ value[1].page = request.page /\ value[1].size = request.size
                  /\ value[1].total = 0 => value[1].total_pages = 0
                  /\ value[1].total > 0 =>
                        /\ (value[1].total_pages - 1) * request.size < value[1].total
                        /\ value[1].total <= value[1].total_pages * request.size
            /\ value = None => api_result[1].exc \in {Some("ValueError"), Some("ConnectionError")}

\* C30 witness: page 2 of size 3 over 4 hits: from 3, and 2 pages.
C30_Witness ==
    /\ SearchCall
    /\ api_result[1].request.page = 2 /\ api_result[1].request.size = 3
    /\ api_result[1].body = Some([from |-> 3, size |-> 3, sort |-> <<>>])
    /\ api_result[1].value = Some([total |-> 4, page |-> 2, size |-> 3, total_pages |-> 2])


(***************************************************************************)
(* The drift-monitoring DAG (C29).                                         *)
(***************************************************************************)
\* the tasks of the run at hand are all finished and detect_drift has reported
DriftRunDone ==
    /\ dag # None
    /\ \A t \in DOMAIN Upstream : dag[1].state[t] # "none"
    /\ dag[1].drift_results # None

\* the position of a task among the tasks the run executed, 0 when it did not
ExecutedAt(task) ==
    IF \E i \in 1..Len(dag[1].executed) : dag[1].executed[i] = task
    THEN CHOOSE i \in 1..Len(dag[1].executed) : dag[1].executed[i] = task
    ELSE 0

\* C29: detect_drift reports retraining_required exactly when data drift or
\* model drift was detected; a run in which it is true executes
\* log_retraining_trigger and then trigger_retraining, which starts
\* clv_model_training, and not no_retraining_needed; a run in which it is
\* false executes no_retraining_needed and neither of the other two, so
\* that retraining is not triggered.
C29_RetrainingBranch ==
    /\ (dag # None /\ dag[1].drift_results # None) =>
          dag[1].drift_results[1].retraining_required
              = (dag[1].drift_results[1].data_drift \/ dag[1].drift_results[1].model_drift)
    /\ DriftRunDone =>
          IF dag[1].drift_results[1].retraining_required
          THEN /\ ExecutedAt("log_retraining_trigger") > 0
               /\ ExecutedAt("trigger_retraining") > ExecutedAt("log_retraining_trigger")
               /\ dag[1].triggered > 0
               /\ ExecutedAt("no_retraining_needed") = 0
          ELSE /\ ExecutedAt("no_retraining_needed") > 0
               /\ ExecutedAt("log_retraining_trigger") = 0
               /\ ExecutedAt("trigger_retraining") = 0

=============================================================================
